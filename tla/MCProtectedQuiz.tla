-------------------------- MODULE MCProtectedQuiz ---------------------------
(* A quiz of two questions that share a passage, edited between two        *)
(* versions with opposite solutions; the limit of five sessions is one.    *)
(* "play": one session of either kind.  "sessions" and "edited": two       *)
(* starts and two tokens; only the first question is played, in an exam,   *)
(* with one answer; snapshots are cleaned up in the one, and questions     *)
(* edited in the other, where the cache evicts nothing.                    *)
EXTENDS ProtectedQuiz, TLC

CONSTANTS u1, v1, v2, a1, a2

MCUsers == {u1}
MCVersions == {v1, v2}
MCChoices == {a1, a2}
MCSolution == [v \in MCVersions |-> [i \in Items |-> IF v = v1 THEN a1 ELSE a2]]
MCGroup == [i \in Items |-> 0]
MCPractice == [instant |-> TRUE, layout |-> "toeic", timed |-> FALSE]
MCExam == [instant |-> FALSE, layout |-> "default", timed |-> TRUE]
MCKinds == {MCPractice, MCExam}

\* Start requests and session tokens are interchangeable.
MCSymmetry == Permutations(Starters) \cup Permutations(Sessions)

VARIABLE scenario
mcVars == <<quizVars, scenario>>

MCInit ==
    /\ QuizInit
    /\ scenario \in {"play", "sessions", "edited"}
    /\ scenario = "sessions" => version = v1

MayStart(kind) ==
    IF scenario # "play" THEN kind = MCExam
    ELSE /\ \A b \in Starters : starter[b] = Idle
         /\ \A s \in Sessions : session[s] = NoSession
Played == IF scenario = "play" THEN Items ELSE {0}
Chosen == IF scenario = "play" THEN Choices ELSE {a1}

MCStart ==
    /\ \/ \E b \in Starters, u \in Users, kind \in Kinds, rep \in Replicas :
            MayStart(kind) /\ StartSnapshot(b, u, kind, rep)
       \/ \E b \in Starters : CreateCount(b)
       \/ \E b \in Starters, s \in Sessions : CreateInsert(b, s)
       \/ \E b \in Starters : StartFail(b)
    /\ UNCHANGED scenario

MCPlay ==
    /\ \E s \in Sessions, rep \in Replicas :
          \/ \E i \in Played : ActPage(s, rep, i) \/ ActSubmit(s, rep, i)
          \/ \E i \in Played, a \in Chosen : ActAnswer(s, rep, i, a)
          \/ Peek(s, rep)
          \/ DeleteSession(s)
    /\ UNCHANGED scenario

MCBackground ==
    /\ BackgroundNext /\ UNCHANGED scenario
    /\ scenario = "sessions" => version' = version
    /\ scenario = "edited" => snapshots' = snapshots

KeepsCaches == scenario = "edited" => \A rep \in Replicas : cache[rep] \subseteq cache'[rep]

MCNext == (MCStart \/ MCPlay \/ MCBackground) /\ KeepsCaches

MCSpec == MCInit /\ [][MCNext]_mcVars
=============================================================================
