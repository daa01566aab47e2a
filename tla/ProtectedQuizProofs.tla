------------------------ MODULE ProtectedQuizProofs -------------------------
(***************************************************************************)
(* The promises of the protected quiz player, for every number of learners,*)
(* sessions, start requests, replicas, questions and edits: what a session *)
(* may become in a step, the limit of active sessions under the advisory   *)
(* lock, answers that are final once their solution can be seen, and the   *)
(* score that is recorded.                                                 *)
(***************************************************************************)
EXTENDS ProtectedQuiz, TLAPS, FiniteSetTheorems

\* What may become of a session row: the learner, the snapshot and the mode
\* stay; the clock, a submission and a deletion are not taken back; an answer
\* changes only while the session is active, and in instant mode only once.
Evolves(old, new) ==
    /\ new \in SessionRow
    /\ new.user = old.user /\ new.snapshot = old.snapshot /\ new.kind = old.kind
    /\ new.stored = old.stored
    /\ new.phase = "running" => old.phase = "running"
    /\ old.submitted => new.submitted
    /\ old.deleted => new.deleted
    /\ \A j \in Items :
        \/ new.answers[j] = old.answers[j]
        \/ /\ ~old.submitted /\ ~old.deleted /\ old.phase = "running"
           /\ old.kind.instant => old.answers[j] = NoAnswer

\* A row that has just been created.
Fresh(row) == row \in SessionRow /\ ~row.submitted

\* A token that was never drawn has no score.
NothingRecordedEarly == \A s \in Sessions : session[s] = NoSession => recorded[s] = NoScore

Scored ==
    \A s \in Sessions :
        IsRow(s) => recorded[s] = IF session[s].submitted THEN Score(session[s]) ELSE NoScore

\* The advisory lock of a learner is held exactly by the start request that
\* has counted the learner's sessions.
LockHeld ==
    /\ \A b \in Starters : starter[b].pc = "counted" => creating[starter[b].user] = b
    /\ \A u \in Users : creating[u] # NoStarter =>
            starter[creating[u]].pc = "counted" /\ starter[creating[u]].user = u

\* While it is held, the count is still right: there is room for one more.
RoomWhileHeld ==
    \A u \in Users : creating[u] # NoStarter => Cardinality(Active(u)) < MaxSessions

QInv ==
    /\ QuizTypeOK
    /\ NothingRecordedEarly
    /\ Scored
    /\ LockHeld
    /\ RoomWhileHeld
    /\ SessionCap

-----------------------------------------------------------------------------
\* The questions are finitely many, so a score is a number.
LEMMA ItemsFinite ==
    /\ 0 \in Items
    /\ \A i : i \in Items => i \in Nat
    /\ \A P \in SUBSET Items : IsFiniteSet(P) /\ Cardinality(P) \in Nat
  <1>1. ItemCount \in Nat \ {0}
    BY QuizConstants
  <1>2. IsFiniteSet(Items)
    BY <1>1, FS_Interval DEF Items
  <1>3. \A P \in SUBSET Items : IsFiniteSet(P) /\ Cardinality(P) \in Nat
    BY <1>2, FS_Subset, FS_CardinalityType
  <1>4. 0 \in Items /\ \A i : i \in Items => i \in Nat
    BY <1>1 DEF Items
  <1> QED  BY <1>3, <1>4

\* The score of a session is a number, and depends on its answers and its
\* snapshot only.
LEMMA ScoreFields ==
    ASSUME NEW row
    PROVE  /\ Score(row) \in Nat /\ Score(row) # NoScore
           /\ \A other : other.answers = row.answers /\ other.snapshot = row.snapshot =>
                            Score(other) = Score(row)
  <1>1. {i \in Items : row.answers[i] = Solution[row.snapshot][i]} \in SUBSET Items
    OBVIOUS
  <1> QED  BY <1>1, ItemsFinite, QuizConstants DEF Score

\* A page is made of questions of the quiz.
LEMMA PageItems ==
    ASSUME NEW kind, NEW i \in Items PROVE Page(kind, i) \in SUBSET Items
  BY DEF Page

\* A session that is neither free nor purged has a row with its columns.
LEMMA RowFields ==
    ASSUME QuizTypeOK, NEW s \in Sessions
    PROVE  /\ IsRow(s) <=> session[s] \in SessionRow
           /\ IsRow(s) \/ session[s] = NoSession \/ session[s] = Purged
           /\ NoSession # Purged
  BY QuizNulls DEF QuizTypeOK, IsRow

\* The columns of a row.
LEMMA RowColumns ==
    ASSUME NEW row \in SessionRow
    PROVE  /\ row.user \in Users /\ row.snapshot \in Versions /\ row.kind \in Kinds
           /\ row.phase \in {"running", "late", "expired"}
           /\ row.submitted \in BOOLEAN /\ row.deleted \in BOOLEAN
           /\ row.answers \in [Items -> Choices \cup {NoAnswer}] /\ row.seen \in SUBSET Items
           /\ row.stored \in BOOLEAN
  BY DEF SessionRow

\* The row a request of the player serves the page at i of, and what it writes.
ToServe(old, row, i) ==
    \/ row = AutoSubmitted(old)
    \/ row = [AutoSubmitted(old) EXCEPT !.submitted = TRUE]
    \/ /\ MayAnswer(AutoSubmitted(old), i)
       /\ \E a \in Choices : row = [AutoSubmitted(old) EXCEPT !.answers[i] = a]
AfterServing(row, i) == [row EXCEPT !.seen = @ \cup Page(row.kind, i)]

\* What is done to a session by a request: nothing, a submission, or an answer
\* while the deadline has not passed, in instant mode the first one.
Played(old, new, i) ==
    /\ new.user = old.user /\ new.snapshot = old.snapshot /\ new.kind = old.kind
    /\ new.phase = old.phase /\ new.deleted = old.deleted
    /\ \/ new.submitted = old.submitted /\ new.answers = old.answers
       \/ ~old.submitted /\ new.submitted /\ new.answers = old.answers
       \/ /\ ~old.submitted /\ ~new.submitted /\ old.phase = "running"
          /\ old.kind.instant => old.answers[i] = NoAnswer
          /\ \E a \in Choices : new.answers = [old.answers EXCEPT ![i] = a]

\* The automatic submission, an answer and the pages seen leave a row in place.
LEMMA ServedRow ==
    ASSUME NEW old \in SessionRow, old.phase # "expired", ~old.deleted, NEW i \in Items,
           NEW row, ToServe(old, row, i)
    PROVE  /\ Evolves(old, AfterServing(row, i))
           /\ Played(old, AfterServing(row, i), i)
           /\ old.submitted => AfterServing(row, i).answers = old.answers
  <1> DEFINE auto == AutoSubmitted(old)
  <1>1. /\ auto \in SessionRow /\ auto.user = old.user /\ auto.snapshot = old.snapshot
        /\ auto.kind = old.kind /\ auto.phase = old.phase /\ auto.deleted = old.deleted
        /\ auto.answers = old.answers /\ auto.seen = old.seen
        /\ auto.stored = old.stored
        /\ auto.submitted <=> old.submitted \/ old.phase = "late"
    BY DEF AutoSubmitted, SessionRow
  <1> HIDE DEF auto
  <1>2. /\ row \in SessionRow /\ row.user = old.user /\ row.snapshot = old.snapshot
        /\ row.kind = old.kind /\ row.phase = old.phase /\ row.deleted = old.deleted
        /\ row.stored = old.stored
        /\ old.submitted => row.submitted /\ row.answers = old.answers
        /\ \A j \in Items :
            \/ row.answers[j] = old.answers[j]
            \/ /\ ~old.submitted /\ ~old.deleted /\ old.phase = "running"
               /\ old.kind.instant => old.answers[j] = NoAnswer
        /\ Played(old, row, i)
    <2>1. CASE row = auto
      BY <1>1, <2>1, RowColumns DEF Played
    <2>2. CASE row = [auto EXCEPT !.submitted = TRUE]
      BY <1>1, <2>2, RowColumns DEF SessionRow, Played
    <2>3. ASSUME MayAnswer(auto, i), NEW a \in Choices, row = [auto EXCEPT !.answers[i] = a]
          PROVE  /\ row \in SessionRow /\ row.user = old.user /\ row.snapshot = old.snapshot
                 /\ row.kind = old.kind /\ row.phase = old.phase /\ row.deleted = old.deleted
                 /\ row.stored = old.stored
                 /\ ~old.submitted /\ old.phase = "running"
                 /\ old.kind.instant => old.answers[i] = NoAnswer
                 /\ \A j \in Items : j # i => row.answers[j] = old.answers[j]
                 /\ old.submitted => row.submitted /\ row.answers = old.answers
                 /\ Played(old, row, i)
      <3>1. /\ ~old.submitted /\ old.phase = "running"
            /\ old.kind.instant => old.answers[i] = NoAnswer
        BY <1>1, <2>3, RowColumns DEF MayAnswer
      <3>2. row.answers = [auto.answers EXCEPT ![i] = a] /\ row \in SessionRow
        BY <1>1, <2>3 DEF SessionRow
      <3>3. /\ row.user = auto.user /\ row.snapshot = auto.snapshot /\ row.kind = auto.kind
            /\ row.phase = auto.phase /\ row.deleted = auto.deleted /\ row.submitted = auto.submitted
            /\ row.stored = auto.stored
        BY <1>1, <2>3 DEF SessionRow
      <3>4. ~auto.submitted
        BY <2>3 DEF MayAnswer
      <3>5. Played(old, row, i)
        BY <1>1, <3>1, <3>2, <3>3, <3>4 DEF Played
      <3> QED  BY <1>1, <2>3, <3>1, <3>2, <3>3, <3>5
    <2> QED  BY <2>1, <2>2, <2>3 DEF auto, ToServe
  <1>3. Page(row.kind, i) \in SUBSET Items
    BY PageItems
  <1>4. /\ AfterServing(row, i) \in SessionRow
        /\ AfterServing(row, i).user = row.user /\ AfterServing(row, i).snapshot = row.snapshot
        /\ AfterServing(row, i).kind = row.kind /\ AfterServing(row, i).phase = row.phase
        /\ AfterServing(row, i).submitted = row.submitted
        /\ AfterServing(row, i).deleted = row.deleted
        /\ AfterServing(row, i).answers = row.answers
        /\ AfterServing(row, i).stored = row.stored
    BY <1>2, <1>3 DEF SessionRow, AfterServing
  <1> HIDE DEF AfterServing
  <1> QED  BY <1>2, <1>4 DEF Evolves, Played

\* Whatever is kept and whatever is evicted, a cache holds snapshots.
LEMMA CacheType ==
    ASSUME QuizTypeOK, NEW rep \in Replicas, NEW v \in Versions, CacheStore(rep, v)
    PROVE  cache' \in [Replicas -> SUBSET Versions]
  BY DEF CacheStore, QuizTypeOK

\* A request of the player: the row evolves, nothing else but the cache and a
\* first score changes.
LEMMA PlayedRow ==
    ASSUME QuizTypeOK, NEW s \in Sessions, NEW rep \in Replicas, NEW i \in Items,
           \/ ActPage(s, rep, i) \/ ActSubmit(s, rep, i)
           \/ \E a \in Choices : ActAnswer(s, rep, i, a)
    PROVE  \E after \in SessionRow :
            /\ session[s] \in SessionRow /\ Playable(s)
            /\ session' = [session EXCEPT ![s] = after]
            /\ Evolves(session[s], after)
            /\ Played(session[s], after, i)
            /\ session[s].submitted => after.answers = session[s].answers
            /\ recorded' = IF after.submitted /\ ~session[s].submitted /\ recorded[s] = NoScore
                             THEN [recorded EXCEPT ![s] = Score(after)] ELSE recorded
            /\ UNCHANGED <<version, snapshots, starter, creating>>
            /\ cache' \in [Replicas -> SUBSET Versions]
  <1>1. PICK row : Serve(s, rep, row, i) /\ ToServe(session[s], row, i)
    <2>1. CASE ActPage(s, rep, i)
      BY <2>1 DEF ActPage, ToServe
    <2>2. CASE ActSubmit(s, rep, i)
      BY <2>2 DEF ActSubmit, ToServe
    <2>3. ASSUME NEW a \in Choices, ActAnswer(s, rep, i, a)
          PROVE  \E row : Serve(s, rep, row, i) /\ ToServe(session[s], row, i)
      <3> DEFINE auto == AutoSubmitted(session[s])
                 row == IF MayAnswer(auto, i) THEN [auto EXCEPT !.answers[i] = a] ELSE auto
      <3>1. Serve(s, rep, row, i)
        BY <2>3 DEF ActAnswer
      <3>2. ToServe(session[s], row, i)
        BY DEF ToServe
      <3> QED  BY <3>1, <3>2
    <2> QED  BY <2>1, <2>2, <2>3
  <1> DEFINE after == AfterServing(row, i)
  <1>2. session[s] \in SessionRow /\ session[s].phase # "expired" /\ ~session[s].deleted
    BY <1>1, RowFields DEF Serve, Playable
  <1>3. /\ Evolves(session[s], after)
        /\ Played(session[s], after, i)
        /\ session[s].submitted => after.answers = session[s].answers
    BY <1>1, <1>2, ServedRow
  <1>4. after \in SessionRow /\ after.snapshot = session[s].snapshot
    BY <1>3 DEF Evolves
  <1>5. row.snapshot = session[s].snapshot
    BY <1>1, <1>2 DEF AutoSubmitted, SessionRow, ToServe
  <1>6. cache' \in [Replicas -> SUBSET Versions]
    BY <1>1, <1>2, <1>5, CacheType, RowColumns DEF Serve
  <1>7. /\ session' = [session EXCEPT ![s] = after]
        /\ recorded' = IF after.submitted /\ ~session[s].submitted /\ recorded[s] = NoScore
                         THEN [recorded EXCEPT ![s] = Score(after)] ELSE recorded
        /\ UNCHANGED <<version, snapshots, starter, creating>>
        /\ Playable(s)
    BY <1>1 DEF Serve, AfterServing
  <1> HIDE DEF after
  <1> QED  BY <1>2, <1>3, <1>4, <1>6, <1>7

\* Start requests know the learner, the kind and the version they work on.
LEMMA StarterFields ==
    ASSUME QuizTypeOK, NEW b \in Starters
    PROVE  /\ Idle \in StarterState
           /\ starter[b].pc # "idle" => /\ starter[b].user \in Users /\ starter[b].kind \in Kinds
                                        /\ starter[b].version \in Versions
           /\ starter[b].pc \in {"put", "counted"} =>
                [starter[b] EXCEPT !.pc = "counted"] \in StarterState
           /\ Released(b) \in [Users -> Starters \cup {NoStarter}]
  BY DEF QuizTypeOK, StarterState, Idle, Released

\* The row of a new session has no answers and is not submitted.
LEMMA CreatedRow ==
    ASSUME QuizTypeOK, NEW b \in Starters, starter[b].pc = "counted"
    PROVE  /\ Fresh(Created(b)) /\ Created(b).user = starter[b].user
  <1>1. /\ starter[b].user \in Users /\ starter[b].kind \in Kinds /\ starter[b].version \in Versions
    BY StarterFields
  <1>2. Page(starter[b].kind, 0) \in SUBSET Items
    BY PageItems, ItemsFinite
  <1> QED  BY <1>1, <1>2 DEF Fresh, Created, SessionRow

\* A deletion and the clock leave a row in place as well.
LEMMA AgedRow ==
    ASSUME NEW old \in SessionRow, NEW phase \in {"late", "expired"}
    PROVE  /\ Evolves(old, [old EXCEPT !.deleted = TRUE])
           /\ Evolves(old, [old EXCEPT !.phase = phase])
           /\ [old EXCEPT !.deleted = TRUE].answers = old.answers
           /\ [old EXCEPT !.phase = phase].answers = old.answers
           /\ [old EXCEPT !.deleted = TRUE].submitted = old.submitted
           /\ [old EXCEPT !.phase = phase].submitted = old.submitted
  BY DEF Evolves, SessionRow

\* What a step may do to a token: nothing, purge its row, draw it for a new
\* session, or let its row evolve.
RowStep(s) ==
    \/ session'[s] = session[s]
    \/ IsRow(s) /\ session'[s] = Purged
    \/ session[s] = NoSession /\ Fresh(session'[s]) /\ \E b \in Starters : CreateInsert(b, s)
    \/ IsRow(s) /\ Evolves(session[s], session'[s])

\* The actions that write session rows, and no others, move them, one way or
\* another.
LEMMA RowsEvolve ==
    ASSUME QuizTypeOK, [QuizNext]_quizVars
    PROVE  /\ session' \in [Sessions -> SessionRow \cup {NoSession, Purged}]
           /\ \A s \in Sessions : RowStep(s)
  <1> DEFINE Good == /\ session' \in [Sessions -> SessionRow \cup {NoSession, Purged}]
                     /\ \A s \in Sessions : RowStep(s)
  <1>1. session \in [Sessions -> SessionRow \cup {NoSession, Purged}]
    BY DEF QuizTypeOK
  <1>2. CASE session' = session
    BY <1>1, <1>2 DEF RowStep
  <1>3. ASSUME NEW s \in Sessions, session[s] \in SessionRow, NEW row \in SessionRow,
               Evolves(session[s], row), session' = [session EXCEPT ![s] = row]
        PROVE  Good
    BY <1>1, <1>3, RowFields DEF RowStep
  <1>4. ASSUME NEW who PROVE
            /\ WithoutExpired(who) \in [Sessions -> SessionRow \cup {NoSession, Purged}]
            /\ \A s \in Sessions : \/ WithoutExpired(who)[s] = session[s]
                                   \/ IsRow(s) /\ WithoutExpired(who)[s] = Purged
    BY <1>1 DEF WithoutExpired
  <1>5. ASSUME NEW s \in Sessions, NEW rep \in Replicas, NEW i \in Items,
               \/ ActPage(s, rep, i) \/ ActSubmit(s, rep, i)
               \/ \E a \in Choices : ActAnswer(s, rep, i, a)
        PROVE  Good
    BY <1>3, <1>5, PlayedRow
  <1>6. ASSUME NEW s \in Sessions, DeleteSession(s) PROVE Good
    <2>1. session[s] \in SessionRow
      BY <1>6, RowFields DEF DeleteSession
    <2>2. Evolves(session[s], [session[s] EXCEPT !.deleted = TRUE])
      BY <2>1, AgedRow
    <2>3. [session[s] EXCEPT !.deleted = TRUE] \in SessionRow
      BY <2>2 DEF Evolves
    <2> QED  BY <1>3, <1>6, <2>1, <2>2, <2>3 DEF DeleteSession
  <1>7. ASSUME NEW s \in Sessions, NEW phase \in {"late", "expired"}, ClockPasses(s, phase) PROVE Good
    <2>1. session[s] \in SessionRow
      BY <1>7, RowFields DEF ClockPasses
    <2>2. Evolves(session[s], [session[s] EXCEPT !.phase = phase])
      BY <2>1, AgedRow
    <2>3. [session[s] EXCEPT !.phase = phase] \in SessionRow
      BY <2>2 DEF Evolves
    <2> QED  BY <1>3, <1>7, <2>1, <2>2, <2>3 DEF ClockPasses
  <1>8. CASE PurgeSessions
    BY <1>4, <1>8 DEF PurgeSessions, RowStep
  <1>9. ASSUME NEW b \in Starters, NEW s \in Sessions, CreateInsert(b, s) PROVE Good
    <2>1. /\ session' = [WithoutExpired({starter[b].user}) EXCEPT ![s] = Created(b)]
          /\ session[s] = NoSession /\ starter[b].pc = "counted"
      BY <1>9 DEF CreateInsert
    <2>2. Fresh(Created(b)) /\ Created(b) \in SessionRow
      BY <2>1, CreatedRow DEF Fresh
    <2>3. /\ session'[s] = Created(b)
          /\ \A x \in Sessions : x # s =>
                \/ session'[x] = session[x]
                \/ IsRow(x) /\ session'[x] = Purged
      BY <1>4, <2>1
    <2> QED  BY <1>4, <1>9, <2>1, <2>2, <2>3 DEF RowStep
  <1>10. CASE StartNext
    <2>1. ASSUME NEW b \in Starters, NEW u \in Users, NEW kind \in Kinds, NEW rep \in Replicas,
                 StartSnapshot(b, u, kind, rep)
          PROVE  Good
      BY <1>2, <2>1 DEF StartSnapshot
    <2>2. ASSUME NEW b \in Starters, CreateCount(b) \/ StartFail(b) PROVE Good
      BY <1>2, <2>2 DEF CreateCount, StartFail
    <2> QED  BY <1>9, <1>10, <2>1, <2>2 DEF StartNext
  <1>11. CASE PlayNext
    <2>1. ASSUME NEW s \in Sessions, NEW rep \in Replicas, Peek(s, rep) PROVE Good
      BY <1>2, <2>1 DEF Peek
    <2> QED  BY <1>5, <1>6, <1>11, <2>1 DEF PlayNext
  <1>12. CASE BackgroundNext
    BY <1>2, <1>7, <1>8, <1>12
    DEF BackgroundNext, EditQuestions, SnapshotAges, PickUnreferenced, DeletePicked, ReplicaRestart
  <1>13. CASE UNCHANGED quizVars
    BY <1>2, <1>13 DEF quizVars
  <1> QED  BY <1>10, <1>11, <1>12, <1>13 DEF QuizNext

\* The other variables keep their types.
LEMMA TypesKept == QuizTypeOK /\ [QuizNext]_quizVars => QuizTypeOK'
  <1> SUFFICES ASSUME QuizTypeOK, [QuizNext]_quizVars PROVE QuizTypeOK'
    OBVIOUS
  <1>1. /\ version \in Versions /\ snapshots \in [Versions -> SnapshotState]
        /\ cache \in [Replicas -> SUBSET Versions] /\ recorded \in [Sessions -> Nat \cup {NoScore}]
        /\ starter \in [Starters -> StarterState] /\ creating \in [Users -> Starters \cup {NoStarter}]
    BY DEF QuizTypeOK
  <1>2. session' \in [Sessions -> SessionRow \cup {NoSession, Purged}]
    BY RowsEvolve
  <1>3. ASSUME NEW b \in Starters, NEW u \in Users, NEW kind \in Kinds, NEW rep \in Replicas,
               StartSnapshot(b, u, kind, rep)
        PROVE  QuizTypeOK'
    <2>1. cache' \in [Replicas -> SUBSET Versions]
      BY <1>1, <1>3, CacheType DEF StartSnapshot
    <2>2. starter' \in [Starters -> StarterState]
      BY <1>1, <1>3 DEF StartSnapshot, StarterState
    <2>3. snapshots' \in [Versions -> SnapshotState]
      BY <1>1, <1>3 DEF StartSnapshot, SnapshotState
    <2> QED  BY <1>1, <1>2, <1>3, <2>1, <2>2, <2>3 DEF StartSnapshot, QuizTypeOK
  <1>4. ASSUME NEW b \in Starters, CreateCount(b) PROVE QuizTypeOK'
    <2>1. starter[b].user \in Users
      BY <1>4, StarterFields DEF CreateCount
    <2>2. starter' \in [Starters -> StarterState] /\ creating' \in [Users -> Starters \cup {NoStarter}]
      BY <1>1, <1>4, <2>1, StarterFields DEF CreateCount
    <2> QED  BY <1>1, <1>2, <1>4, <2>2 DEF CreateCount, QuizTypeOK
  <1>5. ASSUME NEW b \in Starters, (\E s \in Sessions : CreateInsert(b, s)) \/ StartFail(b)
        PROVE  QuizTypeOK'
    BY <1>1, <1>2, <1>5, StarterFields DEF CreateInsert, StartFail, QuizTypeOK
  <1>6. ASSUME NEW s \in Sessions, NEW rep \in Replicas, NEW i \in Items,
               \/ ActPage(s, rep, i) \/ ActSubmit(s, rep, i)
               \/ \E a \in Choices : ActAnswer(s, rep, i, a)
        PROVE  QuizTypeOK'
    BY <1>1, <1>2, <1>6, PlayedRow, ScoreFields DEF QuizTypeOK
  <1>7. ASSUME NEW s \in Sessions, NEW rep \in Replicas, Peek(s, rep) PROVE QuizTypeOK'
    <2>1. session[s] \in SessionRow
      BY <1>7, RowFields DEF Peek, Playable
    <2>2. cache' \in [Replicas -> SUBSET Versions]
      BY <1>7, <2>1, CacheType, RowColumns DEF Peek
    <2> QED  BY <1>1, <1>2, <1>7, <2>2 DEF Peek, QuizTypeOK
  <1>8. CASE \/ \E s \in Sessions : DeleteSession(s)
             \/ \E s \in Sessions, phase \in {"late", "expired"} : ClockPasses(s, phase)
             \/ PurgeSessions
    BY <1>1, <1>2, <1>8 DEF DeleteSession, ClockPasses, PurgeSessions, QuizTypeOK
  <1>9. CASE \/ \E v \in Versions : EditQuestions(v) \/ SnapshotAges(v) \/ DeletePicked(v)
             \/ PickUnreferenced \/ \E rep \in Replicas : ReplicaRestart(rep)
    BY <1>1, <1>2, <1>9 DEF EditQuestions, SnapshotAges, PickUnreferenced, DeletePicked, ReplicaRestart, QuizTypeOK,
                             SnapshotState
  <1>10. CASE UNCHANGED quizVars
    BY <1>1, <1>2, <1>10 DEF quizVars, QuizTypeOK
  <1> QED
    BY <1>3, <1>4, <1>5, <1>6, <1>7, <1>8, <1>9, <1>10 DEF QuizNext, StartNext, PlayNext, BackgroundNext

\* The tables, caches and requests of the player keep their types.
THEOREM QuizTypeCorrect == QuizSpec => []QuizTypeOK
  <1>1. QuizInit => QuizTypeOK
    BY DEF QuizInit, QuizTypeOK, SnapshotState, StarterState, Idle
  <1> QED  BY <1>1, TypesKept, PTL DEF QuizSpec

-----------------------------------------------------------------------------
(* Answers.                                                                *)

\* A session that shows the solution of an item has that item's answer, and
\* the answer is final: the page, the result and a prefetch beside it can be
\* read without a lock.
THEOREM ShownAnswersAreFinal == QuizSpec => ShownAnswersFinal
  <1>1. ASSUME QuizTypeOK, [QuizNext]_quizVars, NEW s \in Sessions, IsRow(s), NEW i \in Items,
               NEW j \in Shown(session[s], i)
        PROVE  /\ session[s].answers[j] # NoAnswer
               /\ session'[s] = Purged \/ session'[s].answers[j] = session[s].answers[j]
    <2>1. /\ j \in Items /\ session[s].answers[j] # NoAnswer
          /\ session[s].submitted \/ session[s].kind.instant
      BY <1>1 DEF Shown, Answered
    <2>2. RowStep(s)
      BY <1>1, RowsEvolve
    <2> QED  BY <1>1, <2>1, <2>2 DEF RowStep, Evolves, IsRow
  <1>2. QuizTypeOK /\ [QuizNext]_quizVars =>
            [\A s \in Sessions : IsRow(s) =>
                \A i \in Items : \A j \in Shown(session[s], i) :
                    /\ session[s].answers[j] # NoAnswer
                    /\ session'[s] = Purged \/ session'[s].answers[j] = session[s].answers[j]]_quizVars
    BY <1>1
  <1> QED  BY <1>2, QuizTypeCorrect, PTL DEF QuizSpec, ShownAnswersFinal

\* Once the deadline has passed, or the session is submitted, deleted or
\* expired, no request stores an answer.
THEOREM NoLateAnswers == QuizSpec => AnswersFrozen
  <1>1. ASSUME QuizTypeOK, [QuizNext]_quizVars, NEW s \in Sessions, IsRow(s),
               s \notin Active(session[s].user)
        PROVE  session'[s] = Purged \/ session'[s].answers = session[s].answers
    <2>1. session[s].phase # "running" \/ session[s].submitted \/ session[s].deleted
      BY <1>1 DEF Active
    <2>2. RowStep(s)
      BY <1>1, RowsEvolve
    <2>3. CASE Evolves(session[s], session'[s])
      <3>1. session[s] \in SessionRow /\ session'[s] \in SessionRow
        BY <1>1, <2>3, RowFields DEF Evolves
      <3>2. \A j \in Items : session'[s].answers[j] = session[s].answers[j]
        BY <2>1, <2>3 DEF Evolves
      <3> QED  BY <3>1, <3>2, RowColumns
    <2> QED  BY <1>1, <2>2, <2>3 DEF RowStep, IsRow
  <1>2. QuizTypeOK /\ [QuizNext]_quizVars =>
            [\A s \in Sessions :
                IsRow(s) /\ s \notin Active(session[s].user) =>
                    session'[s] = Purged \/ session'[s].answers = session[s].answers]_quizVars
    BY <1>1
  <1> QED  BY <1>2, QuizTypeCorrect, PTL DEF QuizSpec, AnswersFrozen

-----------------------------------------------------------------------------
(* Questions.                                                              *)

\* A row that was inserted with its snapshot in the table and not picked.
Backed ==
    \A s \in Sessions :
        IsRow(s) /\ session[s].stored => snapshots[session[s].snapshot] \in {"recent", "old"}

\* A cleanup picks no snapshot that a row refers to, and deletes only what it
\* picked.
LEMMA ReferencedStays ==
    ASSUME QuizTypeOK, [QuizNext]_quizVars, NEW v \in Versions, ~Unreferenced(v),
           snapshots[v] \in {"recent", "old"}
    PROVE  snapshots'[v] \in {"recent", "old"}
  <1>1. snapshots \in [Versions -> SnapshotState]
    BY DEF QuizTypeOK
  <1>2. CASE snapshots' = snapshots
    BY <1>2
  <1>3. CASE PickUnreferenced
    BY <1>3 DEF PickUnreferenced
  <1>4. ASSUME NEW w \in Versions, DeletePicked(w) PROVE snapshots'[v] \in {"recent", "old"}
    BY <1>1, <1>4 DEF DeletePicked
  <1>5. ASSUME NEW b \in Starters, NEW u \in Users, NEW kind \in Kinds, NEW rep \in Replicas,
               StartSnapshot(b, u, kind, rep)
        PROVE  snapshots'[v] \in {"recent", "old"}
    BY <1>1, <1>5 DEF StartSnapshot
  <1>6. ASSUME NEW w \in Versions, SnapshotAges(w) PROVE snapshots'[v] \in {"recent", "old"}
    BY <1>1, <1>6 DEF SnapshotAges
  <1>7. CASE StartNext
    BY <1>2, <1>5, <1>7 DEF StartNext, CreateCount, CreateInsert, StartFail
  <1>8. CASE PlayNext
    BY <1>2, <1>8, PlayedRow DEF PlayNext, Peek, DeleteSession
  <1>9. CASE BackgroundNext
    BY <1>2, <1>3, <1>4, <1>6, <1>9
    DEF BackgroundNext, EditQuestions, ClockPasses, PurgeSessions, ReplicaRestart
  <1>10. CASE UNCHANGED quizVars
    BY <1>2, <1>10 DEF quizVars
  <1> QED  BY <1>7, <1>8, <1>9, <1>10 DEF QuizNext

\* A row keeps what was true when it was inserted.
LEMMA BackedKept == QuizTypeOK /\ Backed /\ [QuizNext]_quizVars => Backed'
  <1> SUFFICES ASSUME QuizTypeOK, Backed, [QuizNext]_quizVars, NEW s \in Sessions,
                      IsRow(s)', session'[s].stored
               PROVE  snapshots'[session'[s].snapshot] \in {"recent", "old"}
    BY DEF Backed
  <1>1. RowStep(s)
    BY RowsEvolve
  <1>2. CASE IsRow(s) /\ session'[s].snapshot = session[s].snapshot
                      /\ session'[s].stored = session[s].stored
    <2>1. session[s].snapshot \in Versions /\ ~Unreferenced(session[s].snapshot)
      BY <1>2, RowFields, RowColumns DEF Unreferenced
    <2> QED  BY <1>2, <2>1, ReferencedStays DEF Backed
  <1>3. ASSUME NEW b \in Starters, CreateInsert(b, s)
        PROVE  snapshots'[session'[s].snapshot] \in {"recent", "old"}
    <2>1. session'[s] = Created(b) /\ UNCHANGED snapshots
      BY <1>3 DEF CreateInsert, WithoutExpired
    <2>2. /\ Created(b).snapshot = starter[b].version
          /\ Created(b).stored = (snapshots[starter[b].version] \in {"recent", "old"})
      BY Zenon DEF Created
    <2>3. Created(b).stored
      BY <2>1
    <2>4. snapshots[starter[b].version] \in {"recent", "old"}
      BY <2>2, <2>3, Zenon
    <2> QED  BY <2>1, <2>2, <2>4
  <1>4. CASE session'[s] = session[s]
    BY <1>2, <1>4 DEF IsRow
  <1>5. CASE IsRow(s) /\ Evolves(session[s], session'[s])
    BY <1>2, <1>5 DEF Evolves
  <1>6. session'[s] # Purged
    BY DEF IsRow
  <1> QED  BY <1>1, <1>3, <1>4, <1>5, <1>6 DEF RowStep

\* A session that was inserted while its snapshot was in the table and not picked
\* finds it there while it can be played: neither the hourly cleanup, in two
\* steps between which sessions begin, nor an edit, nor the end of another session
\* takes it away.
THEOREM SnapshotsAreKept == QuizSpec => []QuestionsKept
  <1>1. QuizInit => Backed
    BY DEF QuizInit, Backed, IsRow
  <1>2. QuizTypeOK /\ Backed => QuestionsKept
    BY DEF Backed, QuestionsKept, Playable
  <1> QED  BY <1>1, <1>2, BackedKept, QuizTypeCorrect, PTL DEF QuizSpec

-----------------------------------------------------------------------------
(* Scores.                                                                 *)

\* Requests that are not the player's leave the recorded scores alone, and
\* answers and submissions with them.
LEMMA ScoresUntouched ==
    ASSUME QuizTypeOK, NothingRecordedEarly, Scored, recorded' = recorded,
           \A s \in Sessions :
              \/ session'[s] \in {session[s], Purged}
              \/ session[s] = NoSession /\ Fresh(session'[s])
              \/ /\ IsRow(s) /\ Evolves(session[s], session'[s])
                 /\ session'[s].submitted = session[s].submitted
                 /\ session'[s].answers = session[s].answers
    PROVE  NothingRecordedEarly' /\ Scored'
  <1>1. ASSUME NEW s \in Sessions, session'[s] = NoSession PROVE recorded'[s] = NoScore
    BY <1>1, RowFields, QuizNulls DEF NothingRecordedEarly, Fresh, Evolves
  <1>2. ASSUME NEW s \in Sessions, session'[s] \notin {NoSession, Purged}
        PROVE  recorded'[s] = IF session'[s].submitted THEN Score(session'[s]) ELSE NoScore
    <2>1. CASE session'[s] = session[s]
      BY <1>2, <2>1 DEF Scored, IsRow
    <2>2. CASE session[s] = NoSession /\ Fresh(session'[s])
      BY <2>2 DEF NothingRecordedEarly, Fresh
    <2>3. CASE /\ IsRow(s) /\ Evolves(session[s], session'[s])
               /\ session'[s].submitted = session[s].submitted
               /\ session'[s].answers = session[s].answers
      <3>1. Score(session'[s]) = Score(session[s])
        BY <2>3, ScoreFields DEF Evolves
      <3> QED  BY <2>3, <3>1 DEF Scored
    <2> QED  BY <1>2, <2>1, <2>2, <2>3
  <1> QED  BY <1>1, <1>2 DEF NothingRecordedEarly, Scored, IsRow, Score

\* Every step keeps the recorded score the score of the answers.
LEMMA ScoresKept ==
    ASSUME QuizTypeOK, NothingRecordedEarly, Scored, [QuizNext]_quizVars
    PROVE  NothingRecordedEarly' /\ Scored'
  <1>1. CASE session' = session /\ recorded' = recorded
    BY <1>1, ScoresUntouched
  <1>2. ASSUME NEW s \in Sessions, NEW rep \in Replicas, NEW i \in Items,
               \/ ActPage(s, rep, i) \/ ActSubmit(s, rep, i)
               \/ \E a \in Choices : ActAnswer(s, rep, i, a)
        PROVE  NothingRecordedEarly' /\ Scored'
    <2>1. PICK after \in SessionRow :
            /\ session[s] \in SessionRow
            /\ session' = [session EXCEPT ![s] = after]
            /\ Evolves(session[s], after)
            /\ session[s].submitted => after.answers = session[s].answers
            /\ recorded' = IF after.submitted /\ ~session[s].submitted /\ recorded[s] = NoScore
                             THEN [recorded EXCEPT ![s] = Score(after)] ELSE recorded
      BY <1>2, PlayedRow
    <2>2. /\ session \in [Sessions -> SessionRow \cup {NoSession, Purged}]
          /\ recorded \in [Sessions -> Nat \cup {NoScore}]
          /\ IsRow(s) /\ after \notin {NoSession, Purged}
      BY <2>1, RowFields, QuizNulls DEF QuizTypeOK
    <2>3. recorded'[s] = IF after.submitted THEN Score(after) ELSE NoScore
      <3>1. recorded[s] = IF session[s].submitted THEN Score(session[s]) ELSE NoScore
        BY <2>2 DEF Scored
      <3>2. session[s].submitted => Score(after) = Score(session[s]) /\ after.submitted
        BY <2>1, ScoreFields DEF Evolves
      <3> QED  BY <2>1, <2>2, <3>1, <3>2
    <2>4. \A x \in Sessions : x # s => session'[x] = session[x] /\ recorded'[x] = recorded[x]
      BY <2>1, <2>2
    <2>5. session'[s] = after
      BY <2>1, <2>2
    <2>6. Scored'
      BY <2>2, <2>3, <2>4, <2>5 DEF Scored, IsRow, Score
    <2>7. NothingRecordedEarly'
      BY <2>2, <2>4, <2>5 DEF NothingRecordedEarly
    <2> QED  BY <2>6, <2>7
  <1>3. ASSUME NEW s \in Sessions, DeleteSession(s) PROVE NothingRecordedEarly' /\ Scored'
    <2> DEFINE row == [session[s] EXCEPT !.deleted = TRUE]
    <2>1. IsRow(s) /\ session[s] \in SessionRow /\ session' = [session EXCEPT ![s] = row]
      BY <1>3, RowFields DEF DeleteSession
    <2>2. Evolves(session[s], row) /\ row.answers = session[s].answers /\ row.submitted = session[s].submitted
      BY <2>1, AgedRow
    <2> HIDE DEF row
    <2> QED  BY <1>3, <2>1, <2>2, ScoresUntouched DEF DeleteSession, QuizTypeOK
  <1>4. ASSUME NEW s \in Sessions, NEW phase \in {"late", "expired"}, ClockPasses(s, phase)
        PROVE  NothingRecordedEarly' /\ Scored'
    <2> DEFINE row == [session[s] EXCEPT !.phase = phase]
    <2>1. IsRow(s) /\ session[s] \in SessionRow /\ session' = [session EXCEPT ![s] = row]
      BY <1>4, RowFields DEF ClockPasses
    <2>2. Evolves(session[s], row) /\ row.answers = session[s].answers /\ row.submitted = session[s].submitted
      BY <2>1, AgedRow
    <2> HIDE DEF row
    <2> QED  BY <1>4, <2>1, <2>2, ScoresUntouched DEF ClockPasses, QuizTypeOK
  <1>5. CASE PurgeSessions
    BY <1>5, ScoresUntouched DEF PurgeSessions, WithoutExpired
  <1>6. ASSUME NEW b \in Starters, NEW s \in Sessions, CreateInsert(b, s)
        PROVE  NothingRecordedEarly' /\ Scored'
    <2>1. Fresh(Created(b))
      BY <1>6, CreatedRow DEF CreateInsert
    <2>2. /\ session[s] = NoSession /\ session'[s] = Created(b)
          /\ \A x \in Sessions : x # s => session'[x] \in {session[x], Purged}
          /\ recorded' = recorded
      BY <1>6 DEF CreateInsert, WithoutExpired
    <2> QED  BY <2>1, <2>2, ScoresUntouched
  <1>7. CASE StartNext
    BY <1>1, <1>6, <1>7 DEF StartNext, StartSnapshot, CreateCount, StartFail
  <1>8. CASE PlayNext
    BY <1>1, <1>2, <1>3, <1>8 DEF PlayNext, Peek
  <1>9. CASE BackgroundNext
    BY <1>1, <1>4, <1>5, <1>9
    DEF BackgroundNext, EditQuestions, SnapshotAges, PickUnreferenced, DeletePicked, ReplicaRestart
  <1>10. CASE UNCHANGED quizVars
    BY <1>1, <1>10 DEF quizVars
  <1> QED  BY <1>7, <1>8, <1>9, <1>10 DEF QuizNext

\* The score that is recorded is the score of the session's answers under the
\* questions it was started with, and stays that, whatever requests, retries,
\* edits and cleanups follow.
THEOREM RecordedScoresAreFinal == QuizSpec => []RecordedScoreFinal
  <1>1. QuizInit => NothingRecordedEarly /\ Scored
    BY DEF QuizInit, NothingRecordedEarly, Scored, IsRow
  <1>2. QuizTypeOK /\ NothingRecordedEarly /\ Scored /\ [QuizNext]_quizVars =>
            NothingRecordedEarly' /\ Scored'
    BY ScoresKept
  <1>3. QuizTypeOK /\ Scored => RecordedScoreFinal
    BY DEF Scored, RecordedScoreFinal
  <1> QED  BY <1>1, <1>2, <1>3, QuizTypeCorrect, PTL DEF QuizSpec

-----------------------------------------------------------------------------
(* The limit of active sessions.                                           *)

\* There are finitely many sessions, so they can be counted.
LEMMA ActiveFinite ==
    ASSUME NEW A \in SUBSET Sessions, NEW B \in SUBSET Sessions
    PROVE  /\ Cardinality(A) \in Nat
           /\ B \subseteq A => Cardinality(B) <= Cardinality(A)
           /\ \A s \in Sessions : B \subseteq A \cup {s} => Cardinality(B) <= Cardinality(A) + 1
  <1>1. IsFiniteSet(A) /\ IsFiniteSet(B) /\ Cardinality(A) \in Nat /\ Cardinality(B) \in Nat
    BY QuizConstants, FS_Subset, FS_CardinalityType
  <1>2. B \subseteq A => Cardinality(B) <= Cardinality(A)
    BY <1>1, FS_Subset
  <1>3. ASSUME NEW s \in Sessions, B \subseteq A \cup {s} PROVE Cardinality(B) <= Cardinality(A) + 1
    <2>1. /\ IsFiniteSet(A \cup {s})
          /\ Cardinality(A \cup {s}) = Cardinality(A) \/ Cardinality(A \cup {s}) = Cardinality(A) + 1
      BY <1>1, FS_AddElement
    <2>2. Cardinality(B) <= Cardinality(A \cup {s})
      BY <1>3, <2>1, FS_Subset
    <2> QED  BY <1>1, <2>1, <2>2
  <1> QED  BY <1>1, <1>2, <1>3

\* No session becomes active again: a learner gets an active session by the
\* insert of a start request only.
LEMMA ActiveGrows ==
    ASSUME QuizTypeOK, [QuizNext]_quizVars, NEW u \in Users, NEW s \in Active(u)', s \notin Active(u)
    PROVE  \E b \in Starters : CreateInsert(b, s)
  <1>1. s \in Sessions /\ RowStep(s) /\ QuizTypeOK'
    BY RowsEvolve, TypesKept DEF Active
  <1>2. session'[s] \notin {NoSession, Purged}
    BY DEF Active, IsRow
  <1> QED  BY <1>1, <1>2 DEF RowStep, Evolves, Active, IsRow

\* With the locks as they are and no session added, the counts stay right.
LEMMA CountsKept ==
    ASSUME QInv, QuizTypeOK',
           \A u \in Users : Active(u)' \subseteq Active(u),
           \A u \in Users : creating'[u] # NoStarter => creating[u] # NoStarter
    PROVE  RoomWhileHeld' /\ SessionCap'
  <1>1. \A u \in Users : /\ Active(u) \in SUBSET Sessions /\ Active(u)' \in SUBSET Sessions
                         /\ Cardinality(Active(u)) \in Nat /\ Cardinality(Active(u)') \in Nat
                         /\ Cardinality(Active(u)') <= Cardinality(Active(u))
    BY ActiveFinite DEF Active
  <1> QED  BY <1>1, QuizConstants DEF QInv, RoomWhileHeld, SessionCap

\* The end of a transaction releases its lock and nobody else's.
LEMMA LockReleased ==
    ASSUME QuizTypeOK, LockHeld, NEW b \in Starters,
           starter' = [starter EXCEPT ![b] = Idle], creating' = Released(b)
    PROVE  LockHeld'
  <1>1. /\ starter \in [Starters -> StarterState] /\ creating \in [Users -> Starters \cup {NoStarter}]
        /\ starter'[b].pc = "idle" /\ \A x \in Starters : x # b => starter'[x] = starter[x]
        /\ \A u \in Users : creating'[u] = IF creating[u] = b THEN NoStarter ELSE creating[u]
    BY DEF QuizTypeOK, Idle, Released
  <1>2. ASSUME NEW x \in Starters, starter'[x].pc = "counted" PROVE creating'[starter'[x].user] = x
    <2>1. x # b /\ starter'[x] = starter[x]
      BY <1>1, <1>2
    <2>2. starter[x].user \in Users /\ creating[starter[x].user] = x
      BY <1>2, <2>1, StarterFields DEF LockHeld
    <2> QED  BY <1>1, <2>1, <2>2
  <1>3. ASSUME NEW u \in Users, creating'[u] # NoStarter
        PROVE  starter'[creating'[u]].pc = "counted" /\ starter'[creating'[u]].user = u
    BY <1>1, <1>3 DEF LockHeld
  <1> QED  BY <1>2, <1>3 DEF LockHeld

\* The insert releases the lock, and fills the room it was taken for.
LEMMA InsertKept ==
    ASSUME QInv, NEW b \in Starters, NEW s \in Sessions, CreateInsert(b, s)
    PROVE  LockHeld' /\ RoomWhileHeld' /\ SessionCap'
  <1> DEFINE u == starter[b].user
  <1>1. /\ starter[b].pc = "counted" /\ starter' = [starter EXCEPT ![b] = Idle]
        /\ creating' = [v \in Users |-> IF creating[v] = b THEN NoStarter ELSE creating[v]]
        /\ session' = [WithoutExpired({u}) EXCEPT ![s] = Created(b)]
    BY DEF CreateInsert, Released
  <1>2. /\ QuizTypeOK /\ starter \in [Starters -> StarterState] /\ u \in Users /\ creating[u] = b
        /\ Created(b).user = u
    BY <1>1, StarterFields, CreatedRow DEF QInv, QuizTypeOK, LockHeld
  <1>3. LockHeld'
    BY LockReleased DEF QInv, CreateInsert
  <1>4. /\ session'[s] = Created(b)
        /\ \A x \in Sessions : x # s => session'[x] \in {session[x], Purged}
    BY <1>1 DEF WithoutExpired
  <1>5. \A v \in Users : /\ Active(v)' \subseteq Active(v) \cup {s}
                         /\ v # u => Active(v)' \subseteq Active(v)
    BY <1>2, <1>4 DEF Active, IsRow
  <1>6. \A v \in Users : /\ Active(v) \in SUBSET Sessions /\ Active(v)' \in SUBSET Sessions
    BY DEF Active
  <1>7. \A v \in Users : /\ Cardinality(Active(v)) \in Nat /\ Cardinality(Active(v)') \in Nat
                         /\ Cardinality(Active(v)') <= Cardinality(Active(v)) + 1
                         /\ v # u => Cardinality(Active(v)') <= Cardinality(Active(v))
    BY <1>5, <1>6, ActiveFinite
  <1>8. Cardinality(Active(u)) < MaxSessions /\ creating'[u] = NoStarter
    BY <1>1, <1>2, QuizConstants DEF QInv, RoomWhileHeld
  <1>9. SessionCap'
    BY <1>2, <1>7, <1>8, QuizConstants DEF QInv, SessionCap
  <1>10. RoomWhileHeld'
    BY <1>1, <1>2, <1>7, <1>8, QuizConstants DEF QInv, RoomWhileHeld
  <1> QED  BY <1>3, <1>9, <1>10

\* Every step keeps the locks and the counts.
LEMMA QInvStep == QInv /\ [QuizNext]_quizVars => QInv'
  <1> SUFFICES ASSUME QInv, [QuizNext]_quizVars PROVE QInv'
    OBVIOUS
  <1>1. QuizTypeOK' /\ NothingRecordedEarly' /\ Scored'
    BY TypesKept, ScoresKept DEF QInv
  <1>2. QuizTypeOK /\ starter \in [Starters -> StarterState] /\ creating \in [Users -> Starters \cup {NoStarter}]
    BY DEF QInv, QuizTypeOK
  <1>3. Idle.pc = "idle"
    BY DEF Idle
  <1>4. CASE \E b \in Starters, s \in Sessions : CreateInsert(b, s)
    BY <1>1, <1>4, InsertKept DEF QInv
  <1>5. CASE \A b \in Starters, s \in Sessions : ~CreateInsert(b, s)
    <2>1. \A u \in Users : Active(u)' \subseteq Active(u)
      BY <1>2, <1>5, ActiveGrows DEF Active
    <2>2. CASE UNCHANGED <<starter, creating>>
      <3>1. RoomWhileHeld' /\ SessionCap'
        BY <1>1, <2>1, <2>2, CountsKept
      <3> QED  BY <1>1, <2>2, <3>1 DEF QInv, LockHeld
    <2>3. ASSUME NEW b \in Starters, NEW u \in Users, NEW kind \in Kinds, NEW rep \in Replicas,
                 StartSnapshot(b, u, kind, rep)
          PROVE  QInv'
      <3>1. /\ starter[b].pc = "idle" /\ starter'[b].pc = "put" /\ creating' = creating
            /\ \A x \in Starters : x # b => starter'[x] = starter[x]
        BY <1>2, <1>3, <2>3 DEF StartSnapshot
      <3>2. LockHeld'
        BY <1>2, <3>1, QuizConstants DEF QInv, LockHeld
      <3>3. RoomWhileHeld' /\ SessionCap'
        BY <1>1, <2>1, <3>1, CountsKept
      <3> QED  BY <1>1, <3>2, <3>3 DEF QInv
    <2>4. ASSUME NEW b \in Starters, StartFail(b) PROVE QInv'
      <3>1. /\ starter' = [starter EXCEPT ![b] = Idle]
            /\ creating' = [v \in Users |-> IF creating[v] = b THEN NoStarter ELSE creating[v]]
        BY <2>4 DEF StartFail, Released
      <3>2. LockHeld'
        BY <1>2, <2>4, LockReleased DEF QInv, StartFail
      <3>3. RoomWhileHeld' /\ SessionCap'
        BY <1>1, <2>1, <3>1, CountsKept
      <3> QED  BY <1>1, <3>2, <3>3 DEF QInv
    <2>5. ASSUME NEW b \in Starters, CreateCount(b) PROVE QInv'
      <3> DEFINE u == starter[b].user
      <3>1. starter[b].pc = "put" /\ creating[u] = NoStarter /\ u \in Users
        BY <2>5, StarterFields, <1>2 DEF CreateCount
      <3>2. CASE Cardinality(Active(u)) < MaxSessions
        <4>1. /\ creating' = [creating EXCEPT ![u] = b]
              /\ starter' = [starter EXCEPT ![b] = [starter[b] EXCEPT !.pc = "counted"]]
              /\ session' = session
          BY <2>5, <3>2 DEF CreateCount
        <4>2. /\ creating'[u] = b /\ \A v \in Users : v # u => creating'[v] = creating[v]
              /\ \A x \in Starters : x # b => starter'[x] = starter[x]
          BY <1>2, <3>1, <4>1
        <4>3. starter'[b].pc = "counted" /\ starter'[b].user = u
          BY <1>2, <3>1, <4>1 DEF StarterState
        <4>4. ASSUME NEW x \in Starters, starter'[x].pc = "counted" PROVE creating'[starter'[x].user] = x
          <5>1. CASE x = b
            BY <4>2, <4>3, <5>1
          <5>2. CASE x # b
            <6>1. starter[x].user \in Users /\ creating[starter[x].user] = x /\ starter'[x] = starter[x]
              BY <1>2, <4>2, <4>4, <5>2, StarterFields DEF QInv, LockHeld
            <6> QED  BY <3>1, <4>2, <6>1, QuizConstants
          <5> QED  BY <5>1, <5>2
        <4>5. ASSUME NEW v \in Users, creating'[v] # NoStarter
              PROVE  starter'[creating'[v]].pc = "counted" /\ starter'[creating'[v]].user = v
          <5>1. CASE v = u
            BY <4>2, <4>3, <5>1
          <5>2. CASE v # u
            <6>1. /\ creating'[v] = creating[v] /\ creating[v] \in Starters
                  /\ starter[creating[v]].pc = "counted" /\ starter[creating[v]].user = v
              BY <1>2, <4>2, <4>5, <5>2 DEF QInv, LockHeld
            <6> QED  BY <3>1, <4>2, <6>1
          <5> QED  BY <5>1, <5>2
        <4>6. \A v \in Users : Active(v)' = Active(v)
          BY <4>1 DEF Active, IsRow
        <4>7. RoomWhileHeld' /\ SessionCap'
          BY <3>2, <4>2, <4>6 DEF QInv, RoomWhileHeld, SessionCap
        <4> QED  BY <1>1, <4>4, <4>5, <4>7 DEF QInv, LockHeld
      <3>3. CASE ~(Cardinality(Active(u)) < MaxSessions)
        <4>1. creating' = creating /\ starter' = [starter EXCEPT ![b] = Idle]
          BY <2>5, <3>3 DEF CreateCount
        <4>2. /\ starter'[b].pc = "idle"
              /\ \A x \in Starters : x # b => starter'[x] = starter[x]
          BY <1>2, <1>3, <4>1
        <4>3. LockHeld'
          BY <1>2, <3>1, <4>1, <4>2 DEF QInv, LockHeld
        <4>4. RoomWhileHeld' /\ SessionCap'
          BY <1>1, <2>1, <4>1, CountsKept
        <4> QED  BY <1>1, <4>3, <4>4 DEF QInv
      <3> QED  BY <3>2, <3>3
    <2>6. CASE StartNext
      BY <1>5, <2>3, <2>4, <2>5, <2>6 DEF StartNext
    <2>7. CASE PlayNext
      BY <1>2, <2>2, <2>7, PlayedRow DEF PlayNext, Peek, DeleteSession
    <2>8. CASE BackgroundNext
      BY <2>2, <2>8 DEF BackgroundNext, EditQuestions, ClockPasses, SnapshotAges, PurgeSessions,
                        PickUnreferenced, DeletePicked, ReplicaRestart
    <2>9. CASE UNCHANGED quizVars
      BY <2>2, <2>9 DEF quizVars
    <2> QED  BY <2>6, <2>7, <2>8, <2>9 DEF QuizNext
  <1> QED  BY <1>4, <1>5

\* The locks, the counts and the scores are right in every state.
LEMMA QInvHolds == QuizSpec => []QInv
  <1>1. QuizInit => QInv
    <2> SUFFICES ASSUME QuizInit PROVE QInv
      OBVIOUS
    <2>1. QuizTypeOK
      BY DEF QuizInit, QuizTypeOK, SnapshotState, StarterState, Idle
    <2>2. NothingRecordedEarly /\ Scored
      BY DEF QuizInit, NothingRecordedEarly, Scored, IsRow
    <2>3. LockHeld /\ RoomWhileHeld
      BY DEF QuizInit, LockHeld, RoomWhileHeld, Idle
    <2>4. \A u \in Users : Active(u) = {}
      BY DEF QuizInit, Active, IsRow
    <2>5. Cardinality({}) = 0 /\ MaxSessions \in Nat \ {0}
      BY FS_EmptySet, QuizConstants
    <2>6. SessionCap
      BY <2>4, <2>5 DEF SessionCap
    <2> QED  BY <2>1, <2>2, <2>3, <2>6 DEF QInv
  <1> QED  BY <1>1, QInvStep, PTL DEF QuizSpec

\* No learner has more active sessions of the quiz than the limit, however
\* many start requests run at once, on however many replicas.
THEOREM SessionLimit == QuizSpec => []SessionCap
  <1>1. QInv => SessionCap
    BY DEF QInv
  <1> QED  BY <1>1, QInvHolds, PTL

-----------------------------------------------------------------------------
(* What the learners are promised.                                         *)

Attempt == [s \in Sessions |-> AttemptOf(session[s])]

\* The attempt a row stands for.
LEMMA AttemptFields ==
    ASSUME NEW row \in SessionRow
    PROVE  /\ row.phase = "expired" \/ row.deleted => AttemptOf(row) = [state |-> "gone"]
           /\ row.phase # "expired" /\ ~row.deleted =>
                AttemptOf(row) =
                    [state |-> IF row.submitted THEN "submitted"
                               ELSE IF row.phase = "late" THEN "over" ELSE "open",
                     user |-> row.user, questions |-> row.snapshot, kind |-> row.kind,
                     answers |-> row.answers]
  BY QuizNulls DEF AttemptOf

\* Tokens nobody has drawn and purged rows stand for no attempt.
LEMMA NoAttempt ==
    /\ AttemptOf(NoSession) = Attempts!Absent
    /\ AttemptOf(Purged) = Attempts!Gone
  BY QuizNulls DEF AttemptOf, Attempts!Absent, Attempts!Gone

\* The count of the promise is the count of the player.
LEMMA SameCount == \A S : Attempts!Cardinality(S) = Cardinality(S)
  BY DEF Attempts!Cardinality, Cardinality

\* A new state and new answers of an attempt.
LEMMA AttemptChanges ==
    ASSUME NEW st, NEW u, NEW q, NEW k, NEW ans, NEW x
    PROVE  LET old == [state |-> st, user |-> u, questions |-> q, kind |-> k, answers |-> ans]
           IN  /\ [old EXCEPT !.state = x] =
                    [state |-> x, user |-> u, questions |-> q, kind |-> k, answers |-> ans]
               /\ [old EXCEPT !.answers = x] =
                    [state |-> st, user |-> u, questions |-> q, kind |-> k, answers |-> x]
  OBVIOUS

\* What changes when the attempt behind one token changes.
LEMMA OneAttempt ==
    ASSUME NEW s \in Sessions,
           \A x \in Sessions : x # s => AttemptOf(session'[x]) = AttemptOf(session[x])
    PROVE  Attempt' = [Attempt EXCEPT ![s] = AttemptOf(session'[s])]
  BY DEF Attempt

\* Steps that change no attempt and no score are not seen.
LEMMA Unseen ==
    ASSUME \A x \in Sessions : AttemptOf(session'[x]) = AttemptOf(session[x]), recorded' = recorded
    PROVE  UNCHANGED Attempts!attemptVars
  BY DEF Attempts!attemptVars

\* Purging expired rows is not seen.
LEMMA PurgeUnseen ==
    ASSUME QuizTypeOK, NEW who, NEW x \in Sessions
    PROVE  AttemptOf(WithoutExpired(who)[x]) = AttemptOf(session[x])
  <1>1. CASE WithoutExpired(who)[x] = session[x]
    BY <1>1
  <1>2. CASE IsRow(x) /\ session[x].phase = "expired" /\ WithoutExpired(who)[x] = Purged
    <2>1. session[x] \in SessionRow
      BY <1>2, RowFields
    <2> QED  BY <1>2, <2>1, AttemptFields, NoAttempt DEF Attempts!Gone
  <1> QED  BY <1>1, <1>2 DEF WithoutExpired

\* A request of the player is an answer to an open attempt, the one submission
\* of an attempt, or not seen.
LEMMA PlayedAttempt ==
    ASSUME QInv, NEW s \in Sessions, NEW rep \in Replicas, NEW i \in Items,
           \/ ActPage(s, rep, i) \/ ActSubmit(s, rep, i)
           \/ \E a \in Choices : ActAnswer(s, rep, i, a)
    PROVE  \/ UNCHANGED Attempts!attemptVars
           \/ \E a \in Choices : Attempts!Answer(s, i, a)
           \/ Attempts!Submit(s)
  <1> DEFINE old == session[s]
  <1>1. PICK new \in SessionRow :
            /\ old \in SessionRow /\ Playable(s)
            /\ session' = [session EXCEPT ![s] = new]
            /\ Played(old, new, i)
            /\ recorded' = IF new.submitted /\ ~old.submitted /\ recorded[s] = NoScore
                             THEN [recorded EXCEPT ![s] = Score(new)] ELSE recorded
    BY PlayedRow DEF QInv
  <1>2. /\ session'[s] = new /\ \A x \in Sessions : x # s => session'[x] = session[x]
        /\ recorded \in [Sessions -> Nat \cup {NoScore}]
    BY <1>1 DEF QInv, QuizTypeOK
  <1>3. Attempt' = [Attempt EXCEPT ![s] = AttemptOf(new)]
    BY <1>2, OneAttempt
  <1>4. /\ old.phase # "expired" /\ ~old.deleted /\ new.phase = old.phase /\ ~new.deleted
        /\ new.user = old.user /\ new.snapshot = old.snapshot /\ new.kind = old.kind
    BY <1>1 DEF Playable, Played
  <1>5. /\ AttemptOf(old) = [state |-> IF old.submitted THEN "submitted"
                                        ELSE IF old.phase = "late" THEN "over" ELSE "open",
                              user |-> old.user, questions |-> old.snapshot, kind |-> old.kind,
                              answers |-> old.answers]
        /\ AttemptOf(new) = [state |-> IF new.submitted THEN "submitted"
                                        ELSE IF old.phase = "late" THEN "over" ELSE "open",
                              user |-> old.user, questions |-> old.snapshot, kind |-> old.kind,
                              answers |-> new.answers]
        /\ Attempt[s] = AttemptOf(old)
    BY <1>1, <1>4, AttemptFields DEF Attempt
  <1>6. CASE new.submitted = old.submitted /\ new.answers = old.answers
    <2>1. AttemptOf(new) = AttemptOf(old) /\ recorded' = recorded
      BY <1>1, <1>5, <1>6
    <2> QED  BY <1>2, <2>1, Unseen
  <1>7. CASE ~old.submitted /\ new.submitted /\ new.answers = old.answers
    <2>1. recorded[s] = NoScore /\ recorded' = [recorded EXCEPT ![s] = Score(new)]
      BY <1>1, <1>7, RowFields DEF QInv, Scored
    <2>2. Score(new) = Attempts!Points(s)
      <3>1. Score(new) = Cardinality({j \in Items : old.answers[j] = Solution[old.snapshot][j]})
        BY <1>4, <1>7 DEF Score
      <3>2. Attempt[s].answers = old.answers /\ Attempt[s].questions = old.snapshot
        BY <1>5, <1>7
      <3> QED  BY <3>1, <3>2, SameCount DEF Attempts!Points, Attempt
    <2>3. AttemptOf(new) = [Attempt[s] EXCEPT !.state = "submitted"]
      BY <1>5, <1>7, AttemptChanges
    <2>4. Attempt[s].state \in {"open", "over"}
      BY <1>5, <1>7
    <2> QED  BY <1>3, <2>1, <2>2, <2>3, <2>4 DEF Attempts!Submit, Attempt
  <1>8. ASSUME ~old.submitted, ~new.submitted, old.phase = "running",
               old.kind.instant => old.answers[i] = NoAnswer,
               NEW a \in Choices, new.answers = [old.answers EXCEPT ![i] = a]
        PROVE  Attempts!Answer(s, i, a)
    <2>1. recorded' = recorded
      BY <1>1, <1>8
    <2>2. /\ Attempt[s].state = "open"
          /\ Attempt[s].kind.instant => Attempt[s].answers[i] = NoAnswer
      BY <1>5, <1>8
    <2>3. /\ AttemptOf(new) = [Attempt[s] EXCEPT !.answers = [old.answers EXCEPT ![i] = a]]
          /\ Attempt[s].answers = old.answers
      <3>1. /\ AttemptOf(new) = [state |-> "open", user |-> old.user, questions |-> old.snapshot,
                                 kind |-> old.kind, answers |-> [old.answers EXCEPT ![i] = a]]
            /\ Attempt[s] = [state |-> "open", user |-> old.user, questions |-> old.snapshot,
                             kind |-> old.kind, answers |-> old.answers]
        BY <1>5, <1>8
      <3> HIDE DEF old, Attempt
      <3> QED  BY <3>1, AttemptChanges
    <2> QED  BY <1>3, <2>1, <2>2, <2>3 DEF Attempts!Answer, Attempt
  <1> QED  BY <1>1, <1>6, <1>7, <1>8 DEF Played

\* A deletion ends an attempt that is not gone yet.
LEMMA DeletedAttempt ==
    ASSUME QuizTypeOK, NEW s \in Sessions, DeleteSession(s)
    PROVE  UNCHANGED Attempts!attemptVars \/ Attempts!Leave(s)
  <1> DEFINE old == session[s]
             new == [old EXCEPT !.deleted = TRUE]
  <1>1. old \in SessionRow /\ session' = [session EXCEPT ![s] = new] /\ recorded' = recorded
    BY RowFields DEF DeleteSession
  <1>2. new \in SessionRow /\ new.deleted
    BY <1>1 DEF SessionRow
  <1> HIDE DEF new
  <1>3. session'[s] = new /\ \A x \in Sessions : x # s => session'[x] = session[x]
    BY <1>1 DEF QuizTypeOK
  <1>4. AttemptOf(new) = [state |-> "gone"]
    BY <1>2, AttemptFields
  <1>5. Attempt' = [Attempt EXCEPT ![s] = Attempts!Gone]
    BY <1>3, <1>4, OneAttempt DEF Attempts!Gone
  <1>6. CASE old.phase = "expired" \/ old.deleted
    BY <1>1, <1>3, <1>4, <1>6, AttemptFields, Unseen
  <1>7. CASE old.phase # "expired" /\ ~old.deleted
    <2>1. Attempt[s].state \in {"open", "over", "submitted"}
      BY <1>1, <1>7, AttemptFields DEF Attempt
    <2> QED  BY <1>1, <1>5, <2>1 DEF Attempts!Leave, Attempt
  <1> QED  BY <1>6, <1>7

\* The deadline ends the time of an open attempt, the expiry the attempt.
LEMMA AgedAttempt ==
    ASSUME QuizTypeOK, NEW s \in Sessions, NEW phase \in {"late", "expired"}, ClockPasses(s, phase)
    PROVE  UNCHANGED Attempts!attemptVars \/ Attempts!Leave(s) \/ Attempts!TimeUp(s)
  <1> DEFINE old == session[s]
             new == [old EXCEPT !.phase = phase]
  <1>1. /\ old \in SessionRow /\ session' = [session EXCEPT ![s] = new] /\ recorded' = recorded
        /\ phase = "late" => old.phase = "running" /\ old.kind.timed
        /\ old.phase # "expired"
    BY RowFields DEF ClockPasses
  <1>2. /\ new \in SessionRow /\ new.phase = phase /\ new.deleted = old.deleted
        /\ new.submitted = old.submitted /\ new.user = old.user /\ new.snapshot = old.snapshot
        /\ new.kind = old.kind /\ new.answers = old.answers
    BY <1>1 DEF SessionRow
  <1> HIDE DEF new
  <1>3. session'[s] = new /\ \A x \in Sessions : x # s => session'[x] = session[x]
    BY <1>1 DEF QuizTypeOK
  <1>4. Attempt' = [Attempt EXCEPT ![s] = AttemptOf(new)]
    BY <1>3, OneAttempt
  <1>5. CASE old.deleted
    <2>1. AttemptOf(old) = AttemptOf(new)
      BY <1>1, <1>2, <1>5, AttemptFields
    <2> QED  BY <1>1, <1>3, <2>1, Unseen
  <1>6. CASE ~old.deleted /\ phase = "expired"
    <2>1. Attempt[s].state \in {"open", "over", "submitted"}
      BY <1>1, <1>6, AttemptFields DEF Attempt
    <2>2. AttemptOf(new) = Attempts!Gone
      BY <1>2, <1>6, AttemptFields DEF Attempts!Gone
    <2> QED  BY <1>1, <1>4, <2>1, <2>2 DEF Attempts!Leave, Attempt
  <1>7. CASE ~old.deleted /\ phase = "late"
    <2>1. /\ AttemptOf(old) = [state |-> IF old.submitted THEN "submitted" ELSE "open",
                               user |-> old.user, questions |-> old.snapshot, kind |-> old.kind,
                               answers |-> old.answers]
          /\ AttemptOf(new) = [state |-> IF old.submitted THEN "submitted" ELSE "over",
                               user |-> old.user, questions |-> old.snapshot, kind |-> old.kind,
                               answers |-> old.answers]
          /\ Attempt[s] = AttemptOf(old)
      BY <1>1, <1>2, <1>7, AttemptFields DEF Attempt
    <2>2. CASE old.submitted
      <3>1. AttemptOf(new) = AttemptOf(old)
        BY <2>1, <2>2
      <3> QED  BY <1>1, <1>3, <3>1, Unseen
    <2>3. CASE ~old.submitted
      <3>1. Attempt[s].state = "open" /\ Attempt[s].kind.timed
        BY <1>1, <1>7, <2>1, <2>3
      <3>2. AttemptOf(new) = [Attempt[s] EXCEPT !.state = "over"]
        BY <2>1, <2>3, AttemptChanges
      <3> QED  BY <1>1, <1>4, <3>1, <3>2 DEF Attempts!TimeUp, Attempt
    <2> QED  BY <2>2, <2>3
  <1> QED  BY <1>5, <1>6, <1>7

\* The active sessions of a learner are the open attempts.
LEMMA OpenAttempts == ASSUME QuizTypeOK, NEW u \in Users PROVE Attempts!Open(u) = Active(u)
  <1>1. ASSUME NEW s \in Sessions
        PROVE  s \in Active(u) <=> AttemptOf(session[s]).state = "open" /\ AttemptOf(session[s]).user = u
    <2>1. CASE session[s] \in SessionRow
      <3>1. session[s].phase \in {"running", "late", "expired"} /\ IsRow(s)
        BY <2>1, RowFields, RowColumns
      <3>2. CASE session[s].phase = "expired" \/ session[s].deleted
        BY <2>1, <3>2, AttemptFields DEF Active
      <3>3. CASE session[s].phase # "expired" /\ ~session[s].deleted
        BY <2>1, <3>1, <3>3, AttemptFields DEF Active
      <3> QED  BY <3>2, <3>3
    <2>2. CASE session[s] \in {NoSession, Purged}
      BY <2>2, NoAttempt DEF Active, IsRow, Attempts!Absent, Attempts!Gone
    <2> QED  BY <2>1, <2>2, RowFields
  <1> QED  BY <1>1 DEF Attempts!Open, Active

\* The insert begins the attempt: the lock has kept the room that was counted.
LEMMA BegunAttempt ==
    ASSUME QInv, NEW b \in Starters, NEW s \in Sessions, CreateInsert(b, s)
    PROVE  \E u \in Users, v \in Versions, kind \in Kinds : Attempts!Begin(s, u, v, kind)
  <1> DEFINE u == starter[b].user
             v == starter[b].version
             kind == starter[b].kind
  <1>1. /\ starter[b].pc = "counted" /\ session[s] = NoSession /\ recorded' = recorded
        /\ session' = [WithoutExpired({u}) EXCEPT ![s] = Created(b)]
    BY DEF CreateInsert
  <1>2. u \in Users /\ v \in Versions /\ kind \in Kinds /\ creating[u] = b /\ QuizTypeOK
    BY <1>1, StarterFields DEF QInv, LockHeld
  <1>3. Attempts!Cardinality(Attempts!Open(u)) < MaxSessions
    BY <1>2, OpenAttempts, SameCount, QuizConstants DEF QInv, RoomWhileHeld
  <1>4. /\ Created(b) \in SessionRow /\ ~Created(b).submitted /\ Created(b).user = u
    BY <1>1, <1>2, CreatedRow DEF Fresh
  <1>5. /\ Created(b).phase = "running" /\ ~Created(b).deleted /\ Created(b).snapshot = v
        /\ Created(b).kind = kind /\ Created(b).answers = [i \in Items |-> NoAnswer]
    BY DEF Created
  <1>6. AttemptOf(Created(b)) =
            [state |-> "open", user |-> u, questions |-> v, kind |-> kind,
             answers |-> [i \in Items |-> NoAnswer]]
    BY <1>4, <1>5, AttemptFields
  <1>7. session'[s] = Created(b) /\ \A x \in Sessions : x # s => session'[x] = WithoutExpired({u})[x]
    BY <1>1 DEF WithoutExpired
  <1>8. \A x \in Sessions : x # s => AttemptOf(session'[x]) = AttemptOf(session[x])
    BY <1>2, <1>7, PurgeUnseen
  <1>9. Attempt' = [Attempt EXCEPT ![s] = AttemptOf(Created(b))]
    BY <1>7, <1>8, OneAttempt
  <1>10. Attempt[s] = Attempts!Absent
    BY <1>1, NoAttempt DEF Attempt
  <1>11. Attempts!Begin(s, u, v, kind)
    BY <1>1, <1>3, <1>6, <1>9, <1>10 DEF Attempts!Begin, Attempt
  <1> QED  BY <1>2, <1>11

\* Every step of the player, of the starts and of the background jobs is one
\* step of an attempt, or is not seen.
LEMMA AttemptStep == QInv /\ [QuizNext]_quizVars => [Attempts!AttemptsNext]_Attempts!attemptVars
  <1> SUFFICES ASSUME QInv, [QuizNext]_quizVars
               PROVE  Attempts!AttemptsNext \/ UNCHANGED Attempts!attemptVars
    OBVIOUS
  <1>1. QuizTypeOK
    BY DEF QInv
  <1>2. CASE session' = session /\ recorded' = recorded
    BY <1>2, Unseen
  <1>3. CASE StartNext
    BY <1>2, <1>3, BegunAttempt
    DEF StartNext, StartSnapshot, CreateCount, StartFail, Attempts!AttemptsNext
  <1>4. CASE PlayNext
    <2>1. CASE \E s \in Sessions, rep \in Replicas : Peek(s, rep)
      BY <1>2, <2>1 DEF Peek
    <2>2. CASE \E s \in Sessions : DeleteSession(s)
      BY <1>1, <2>2, DeletedAttempt DEF Attempts!AttemptsNext
    <2>3. ASSUME NEW s \in Sessions, NEW rep \in Replicas, NEW i \in Items,
                 \/ ActPage(s, rep, i) \/ ActSubmit(s, rep, i)
                 \/ \E a \in Choices : ActAnswer(s, rep, i, a)
          PROVE  Attempts!AttemptsNext \/ UNCHANGED Attempts!attemptVars
      BY <2>3, PlayedAttempt DEF Attempts!AttemptsNext
    <2> QED  BY <1>4, <2>1, <2>2, <2>3 DEF PlayNext
  <1>5. CASE PurgeSessions
    <2>1. \A x \in Sessions : AttemptOf(session'[x]) = AttemptOf(session[x])
      BY <1>1, <1>5, PurgeUnseen DEF PurgeSessions
    <2> QED  BY <1>5, <2>1, Unseen DEF PurgeSessions
  <1>6. CASE \E s \in Sessions, phase \in {"late", "expired"} : ClockPasses(s, phase)
    BY <1>1, <1>6, AgedAttempt DEF Attempts!AttemptsNext
  <1>7. CASE BackgroundNext
    BY <1>2, <1>5, <1>6, <1>7
    DEF BackgroundNext, EditQuestions, SnapshotAges, PickUnreferenced, DeletePicked, ReplicaRestart
  <1>8. CASE UNCHANGED quizVars
    BY <1>2, <1>8 DEF quizVars
  <1> QED  BY <1>3, <1>4, <1>7, <1>8 DEF QuizNext

\* The player keeps the promise of QuizAttempts: starts that count and insert
\* in two statements, automatic submissions by whatever request comes next,
\* deletions, expiry, cleanup, caches and edits of the questions never show
\* the learners anything but whole attempts, answered while they are open and
\* submitted once.
THEOREM PlayerImplementsAttempts == QuizSpec => ImplementsAttempts
  <1>1. QuizInit => Attempts!AttemptsInit
    BY NoAttempt DEF QuizInit, Attempts!AttemptsInit
  <1> QED  BY <1>1, AttemptStep, QInvHolds, PTL DEF QuizSpec, ImplementsAttempts, Attempts!AttemptsSpec
=============================================================================
