---------------------------- MODULE LiveAnswers -----------------------------
(***************************************************************************)
(* The players of a live session: joining, submitting answers, retrying    *)
(* them, and the three places a score is kept in (the answers themselves,  *)
(* the totals of the participant rows, the leaderboard hash in Redis).     *)
(* Submissions run beside the host's requests and the auto-close callbacks *)
(* of LiveSession, whose FinalizeScores rewrites the totals.               *)
(***************************************************************************)
EXTENDS LiveSession, FiniteSetsExt

CONSTANTS
    Players,        \* display names
    Submits,        \* concurrent submissions
    Keys,           \* idempotency keys a client chooses from
    ChoiceCount,    \* choices of every question
    Correct,        \* correct choice of every question when the session is created
    Bonuses         \* time bonuses of a correct answer

ASSUME AnswerConstants ==
    /\ ChoiceCount \in Nat \ {0}
    /\ Correct \in [Questions -> 0..(ChoiceCount - 1)]
    /\ Bonuses \subseteq Nat /\ Bonuses # {}

ChoiceIndexes == 0..(ChoiceCount - 1)
Finalizers == Commands \cup Questions
BaseScore == 2                              \* 1000 in units of 500
Scores == {0} \cup {BaseScore + b : b \in Bonuses}

VARIABLES
    joining,        \* players whose join has seen an open lobby
    joined,         \* participant rows
    answers,        \* answer rows
    total,          \* total_score of every participant
    board,          \* score of every participant in the Redis leaderboard
    submit,         \* state of every submission
    snapshot,       \* sums a running FinalizeScores has read
    expired,        \* questions whose closesAt has passed
    announced       \* players' events in the outbox

answerVars == <<joining, joined, answers, total, board, submit, snapshot, expired, announced>>

Request == [player : Players, q : Questions, choice : ChoiceIndexes, key : Keys]
Answer == [player : Players, q : Questions, choice : ChoiceIndexes, key : Keys,
           correct : BOOLEAN, score : Scores]

Replied == {"accepted", "conflict"}         \* replies a property is about
NoSubmit == [pc |-> "idle"]
NoSnapshot == [p \in Players |-> -1]

AnswersInit ==
    /\ joining = {}
    /\ joined = {}
    /\ answers = {}
    /\ total = [p \in Players |-> 0]
    /\ board = [p \in Players |-> 0]
    /\ submit = [r \in Submits |-> NoSubmit]
    /\ snapshot = [f \in Finalizers |-> NoSnapshot]
    /\ expired = {}
    /\ announced = {}

-----------------------------------------------------------------------------
(* Conversions.                                                            *)

\* json.Marshal writes {"selectedIndex":1}; the jsonb column gives the same
\* value back as {"selectedIndex": 1}.
Marshalled(choice) == <<"compact", choice>>
JsonbText(choice) == <<"spaced", choice>>

\* CorrectIndex is excluded from JSON, so the snapshot loaded from the database
\* has zero for every question, whatever CreateSession found.
ReloadedCorrect(q) == 0

Points(isCorrect, bonus) == IF isCorrect THEN BaseScore + bonus ELSE 0

\* Sum of the scores of a player's answers.
Earned(p) == MapThenSumSet(LAMBDA a : a.score, {a \in answers : a.player = p})

-----------------------------------------------------------------------------
(* JoinSession.                                                            *)

\* The session must be in its lobby.  A name that is taken is refused by the
\* insert, which changes nothing, so only new names are followed.
JoinRead(p) ==
    /\ p \notin joining \cup joined
    /\ session.status = "LOBBY"
    /\ joining' = joining \cup {p}
    /\ UNCHANGED <<joined, answers, total, board, submit, snapshot, expired, announced>>

\* The outbox insert of publishEvent, whose failure is only logged.
Announce(published, event) ==
    announced' = IF published THEN announced \cup {event} ELSE announced

\* CreateParticipant: the row is inserted whatever the session has become.
JoinInsert(p, published) ==
    /\ p \in joining
    /\ joining' = joining \ {p}
    /\ joined' = joined \cup {p}
    /\ Announce(published, [type |-> "joined", player |-> p])
    /\ Tolerated(published)
    /\ UNCHANGED <<answers, total, board, submit, snapshot, expired>>

-----------------------------------------------------------------------------
(* SubmitAnswer.                                                           *)

WithKey(p, key) == {a \in answers : a.player = p /\ a.key = key}

\* Mutant of SameAnswer: the answer given is not compared.
SameAnyAnswer(a, r) == a.q = submit[r].req.q

\* What both lookups by idempotency key compare; the session is the same.
SameAnswer(a, r) == /\ a.q = submit[r].req.q
                    /\ JsonbText(a.choice) = Marshalled(submit[r].req.choice)

\* The submission reaches a state, or is refused.
Reaches(r, ok, pc) ==
    submit' = [submit EXCEPT ![r] = IF ok THEN [@ EXCEPT !.pc = pc] ELSE NoSubmit]

\* What the answers stored under the key of a submission mean for it.
LookedUp(r, found, absent) ==
    IF found = {} THEN absent
    ELSE IF \E a \in found : SameAnswer(a, r) THEN "accepted" ELSE "conflict"

\* A request of a player who has joined arrives.
SubmitStart(r, req) ==
    /\ submit[r].pc = "idle"
    /\ req.player \in joined
    /\ submit' = [submit EXCEPT ![r] = [pc |-> "started", req |-> req]]
    /\ UNCHANGED <<joining, joined, answers, total, board, snapshot, expired, announced>>

\* GetAnswerByIdempotencyKey; a lookup that fails counts as one that found
\* nothing.
SubmitLookup(r, ok) ==
    LET found == IF ok THEN WithKey(submit[r].req.player, submit[r].req.key) ELSE {}
    IN  /\ submit[r].pc = "started"
        /\ Tolerated(ok)
        /\ submit' = [submit EXCEPT ![r].pc = LookedUp(r, found, "new")]
        /\ UNCHANGED <<joining, joined, answers, total, board, snapshot, expired, announced>>

\* Mutant of SubmitCheck: the index is not compared.
SubmitCheckAnyQuestion(r) ==
    /\ submit[r].pc = "new"
    /\ Reaches(r, session.status = "QUESTION_OPEN", "open")
    /\ UNCHANGED <<joining, joined, answers, total, board, snapshot, expired, announced>>

\* GetSession: the question must be the open one.
SubmitCheck(r) ==
    /\ submit[r].pc = "new"
    /\ Reaches(r, OpenAt(submit[r].req.q), "open")
    /\ UNCHANGED <<joining, joined, answers, total, board, snapshot, expired, announced>>

\* GetCurrentQuestion: the deadline of whichever question Redis shows by now.
SubmitDeadline(r) ==
    /\ submit[r].pc = "open"
    /\ Reaches(r, question # NoQuestion /\ question \notin expired, "timely")
    /\ UNCHANGED <<joining, joined, answers, total, board, snapshot, expired, announced>>

\* Mutant of Duplicate: only the idempotency key is unique.
DuplicateKeyOnly(req) == \E a \in answers : a.player = req.player /\ a.key = req.key

\* The two unique constraints of live_session_answers.
Duplicate(req) == \E a \in answers : a.player = req.player /\ (a.q = req.q \/ a.key = req.key)

Scored(req, bonus) ==
    LET isCorrect == req.choice = ReloadedCorrect(req.q)
    IN  [player |-> req.player, q |-> req.q, choice |-> req.choice, key |-> req.key,
         correct |-> isCorrect, score |-> Points(isCorrect, bonus)]

\* The transaction: the answer and the totals together.
Stores(r, bonus) ==
    LET answer == Scored(submit[r].req, bonus)
    IN  /\ ~Duplicate(submit[r].req)
        /\ answers' = answers \cup {answer}
        /\ total' = [total EXCEPT ![answer.player] = @ + answer.score]

SubmitCommit(r, bonus) ==
    /\ submit[r].pc = "timely"
    /\ Stores(r, bonus)
    /\ submit' = [submit EXCEPT ![r] = [pc |-> "committed", req |-> @.req, bonus |-> bonus]]
    /\ UNCHANGED <<joining, joined, board, snapshot, expired, announced>>

\* The insert fails; a second lookup by key decides on the answer.
SubmitRefused(r, ok) ==
    LET found == IF ok THEN WithKey(submit[r].req.player, submit[r].req.key) ELSE {}
    IN  /\ submit[r].pc = "timely"
        /\ Duplicate(submit[r].req)
        /\ Tolerated(ok)
        /\ Reaches(r, found # {}, LookedUp(r, found, "refused"))
        /\ UNCHANGED <<joining, joined, answers, total, board, snapshot, expired, announced>>

\* The database is away, or the player has gone; the commit may have been applied.
SubmitFail(r, bonus, applied) ==
    /\ submit[r].pc \in {"new", "timely"}
    /\ failures < MaxFailures
    /\ failures' = failures + 1
    /\ IF applied /\ submit[r].pc = "timely" THEN Stores(r, bonus) ELSE UNCHANGED <<answers, total>>
    /\ submit' = [submit EXCEPT ![r] = NoSubmit]
    /\ UNCHANGED <<joining, joined, board, snapshot, expired, announced>>

\* UpdateLeaderboardEntry, whose failure goes unnoticed, publishEvent, and the
\* reply.
SubmitProject(r, stored, published) ==
    LET answer == Scored(submit[r].req, submit[r].bonus)
    IN  /\ submit[r].pc = "committed"
        /\ board' = IF stored THEN [board EXCEPT ![answer.player] = @ + answer.score] ELSE board
        /\ Announce(published, [type |-> "answered", player |-> answer.player, q |-> answer.q])
        /\ Tolerated(stored /\ published)
        /\ submit' = [submit EXCEPT ![r] = [pc |-> "accepted", req |-> @.req]]
        /\ UNCHANGED <<joining, joined, answers, total, snapshot, expired>>

-----------------------------------------------------------------------------
(* FinalizeScores: one statement that sums the answers committed when it   *)
(* starts, and writes the sums when it has the lock of every row.          *)

Finalizing(f) ==
    IF f \in Commands THEN command[f].pc = "read" /\ command[f].op \in {"close", "end"}
                      ELSE timer[f].pc = "closing"

Sums == [p \in Players |-> IF \E a \in answers : a.player = p THEN Earned(p) ELSE -1]

FinalizeRead(f) ==
    /\ Finalizing(f)
    /\ snapshot[f] = NoSnapshot
    /\ Sums # NoSnapshot
    /\ snapshot' = [snapshot EXCEPT ![f] = Sums]
    /\ UNCHANGED <<joining, joined, answers, total, board, submit, expired, announced>>

\* Mutant of FinalizeWrite: the sums are added to the totals.
FinalizeAdds(f, written) ==
    /\ total' = [p \in Players |-> IF snapshot[f][p] >= 0 THEN total[p] + snapshot[f][p] ELSE total[p]]
    /\ snapshot' = [snapshot EXCEPT ![f] = NoSnapshot]
    /\ UNCHANGED <<joining, joined, answers, board, submit, expired, announced>>

\* Mutant of FinalizeWrite: players without an answer are not left out.
FinalizeAll(f, written) ==
    /\ total' = snapshot[f]
    /\ snapshot' = [snapshot EXCEPT ![f] = NoSnapshot]
    /\ UNCHANGED <<joining, joined, answers, board, submit, expired, announced>>

\* Players without an answer in the sums keep their total; an error, or a
\* statement that never ran, is ignored.
FinalizeWrite(f, written) ==
    /\ total' = IF written
                  THEN [p \in Players |-> IF snapshot[f][p] >= 0 THEN snapshot[f][p] ELSE total[p]]
                  ELSE total
    /\ snapshot' = [snapshot EXCEPT ![f] = NoSnapshot]
    /\ UNCHANGED <<joining, joined, answers, board, submit, expired, announced>>

-----------------------------------------------------------------------------
\* The deadline of a question passes; its timer fires later.
DeadlinePasses(q) ==
    /\ q <= session.idx
    /\ q \notin expired
    /\ expired' = expired \cup {q}
    /\ UNCHANGED <<joining, joined, answers, total, board, submit, snapshot, announced>>

\* A restart ends the requests of players and of the host.
RestartAnswers ==
    /\ joining' = {}
    /\ submit' = [r \in Submits |-> IF submit[r].pc \in Replied THEN submit[r] ELSE NoSubmit]
    /\ snapshot' = [f \in Finalizers |-> NoSnapshot]
    /\ UNCHANGED <<joined, answers, total, board, expired, announced>>

PlayerStep ==
    \/ \E p \in Players : JoinRead(p)
    \/ \E r \in Submits, req \in Request : SubmitStart(r, req)
    \/ \E r \in Submits : SubmitCheck(r)
    \/ \E r \in Submits : SubmitDeadline(r)
    \/ \E r \in Submits, bonus \in Bonuses : SubmitCommit(r, bonus)
    \/ \E f \in Finalizers : FinalizeRead(f)
    \/ \E q \in Questions : DeadlinePasses(q)

\* Steps of players in which a call may fail.
FailingStep ==
    \/ \E r \in Submits, ok \in BOOLEAN : SubmitLookup(r, ok)
    \/ \E r \in Submits, ok \in BOOLEAN : SubmitRefused(r, ok)
    \/ \E p \in Players, published \in BOOLEAN : JoinInsert(p, published)
    \/ \E r \in Submits, stored, published \in BOOLEAN : SubmitProject(r, stored, published)
    \/ \E r \in Submits, bonus \in Bonuses, applied \in BOOLEAN : SubmitFail(r, bonus, applied)

AnswersNext ==
    \/ PlayerStep /\ UNCHANGED liveVars
    \/ /\ FailingStep
       /\ UNCHANGED <<session, question, events, command, timer, registered, recovered, restarts>>
    \/ \E c \in Commands, written \in BOOLEAN :
         CommandFinalize(c) /\ command[c].op \in {"close", "end"} /\ FinalizeWrite(c, written)
    \/ \E k \in Questions, written \in BOOLEAN : CallbackFinalize(k) /\ FinalizeWrite(k, written)
    \/ OtherStep /\ UNCHANGED answerVars
    \/ \E loaded, stored \in BOOLEAN : Restart(loaded, stored) /\ RestartAnswers

AnswersSpec == LiveInit /\ AnswersInit /\ [][AnswersNext]_<<liveVars, answerVars>>

-----------------------------------------------------------------------------
\* Every variable holds a value of its kind.
AnswersTypeOK ==
    /\ LiveTypeOK
    /\ joining \subseteq Players
    /\ joined \subseteq Players
    /\ answers \subseteq Answer
    /\ total \in [Players -> Nat]
    /\ board \in [Players -> Nat]
    /\ submit \in [Submits -> [pc : {"idle"}]
                     \cup [pc : {"started", "new", "open", "timely"} \cup Replied, req : Request]
                     \cup [pc : {"committed"}, req : Request, bonus : Bonuses]]
    /\ snapshot \in [Finalizers -> [Players -> Nat \cup {-1}]]
    /\ expired \subseteq Questions
    /\ announced \subseteq [type : {"joined"}, player : Players]
                      \cup [type : {"answered"}, player : Players, q : Questions]

\* Whatever submissions, retries and finalizations overlap, no answer counts
\* twice: the stored totals and the Redis leaderboard never show more than the
\* answers of the player are worth.
NeverOvercounted ==
    /\ AnswersTypeOK
    /\ \A p \in Players : total[p] <= Earned(p) /\ board[p] <= Earned(p)

\* A player has one answer to a question, and only to a question that was opened.
OneAnswerToOpenedQuestion ==
    \A a \in answers :
        /\ a.q <= session.idx
        /\ \A b \in answers : a.player = b.player /\ a.q = b.q => a = b

\* A player who is told that an answer was accepted finds exactly that answer
\* stored, and an answer the outbox announces is one of a player who joined.
AcceptedIsStored ==
    /\ \A r \in Submits :
         submit[r].pc = "accepted" =>
             \E a \in answers : /\ a.player = submit[r].req.player
                                /\ a.q = submit[r].req.q
                                /\ a.choice = submit[r].req.choice
    /\ \A e \in announced :
         /\ e.player \in joined
         /\ e.type = "answered" => \E a \in answers : a.player = e.player /\ a.q = e.q

\* "Find correct answer from snapshot": an answer counts as correct if it is the
\* choice CreateSession found to be correct.
ScoredAgainstSnapshot == \A a \in answers : a.correct <=> a.choice = Correct[a.q]

\* GetAnswerByIdempotencyKey "returns an existing answer for safe client
\* retries": a repeated request is not refused as a conflict.
SafeRetry ==
    \A r \in Submits :
        submit[r].pc = "conflict" =>
            ~\E a \in answers : /\ a.player = submit[r].req.player
                                /\ a.key = submit[r].req.key
                                /\ a.q = submit[r].req.q
                                /\ a.choice = submit[r].req.choice
=============================================================================
