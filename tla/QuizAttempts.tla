----------------------------- MODULE QuizAttempts -----------------------------
(***************************************************************************)
(* What the protected quiz promises its learners: an attempt begins whole, *)
(* within the limit, on questions that stay what they were; it takes       *)
(* answers while it is open, is submitted once with the score of its       *)
(* answers, and an attempt that is left never comes back, though its score *)
(* stays.  Snapshots, caches, pages, locks and cleanups are not part of    *)
(* the promise.                                                            *)
(***************************************************************************)
EXTENDS Naturals, FiniteSets

CONSTANTS Users, Sessions, Versions, Items, Choices, Solution, Kinds, MaxSessions,
          NoAnswer, NoScore

VARIABLES
    attempt,        \* what every token stands for
    score           \* score recorded for it

attemptVars == <<attempt, score>>

\* A token nobody has drawn, and one whose attempt was deleted or has expired.
Absent == [state |-> "absent"]
Gone == [state |-> "gone"]

AttemptsInit ==
    /\ attempt = [t \in Sessions |-> Absent]
    /\ score = [t \in Sessions |-> NoScore]

\* The attempts a learner can still answer.
Open(u) == {t \in Sessions : attempt[t].state = "open" /\ attempt[t].user = u}

Points(t) == Cardinality({i \in Items : attempt[t].answers[i] = Solution[attempt[t].questions][i]})

\* The count and the new attempt are one step.
Begin(t, u, v, kind) ==
    /\ attempt[t] = Absent
    /\ Cardinality(Open(u)) < MaxSessions
    /\ attempt' = [attempt EXCEPT ![t] =
          [state |-> "open", user |-> u, questions |-> v, kind |-> kind,
           answers |-> [i \in Items |-> NoAnswer]]]
    /\ UNCHANGED score

Answer(t, i, a) ==
    /\ attempt[t].state = "open"
    /\ attempt[t].kind.instant => attempt[t].answers[i] = NoAnswer
    /\ attempt' = [attempt EXCEPT ![t].answers[i] = a]
    /\ UNCHANGED score

TimeUp(t) ==
    /\ attempt[t].state = "open" /\ attempt[t].kind.timed
    /\ attempt' = [attempt EXCEPT ![t].state = "over"]
    /\ UNCHANGED score

Submit(t) ==
    /\ attempt[t].state \in {"open", "over"}
    /\ attempt' = [attempt EXCEPT ![t].state = "submitted"]
    /\ score' = [score EXCEPT ![t] = Points(t)]

Leave(t) ==
    /\ attempt[t].state \in {"open", "over", "submitted"}
    /\ attempt' = [attempt EXCEPT ![t] = Gone]
    /\ UNCHANGED score

AttemptsNext ==
    \E t \in Sessions :
        \/ \E u \in Users, v \in Versions, kind \in Kinds : Begin(t, u, v, kind)
        \/ \E i \in Items, a \in Choices : Answer(t, i, a)
        \/ TimeUp(t)
        \/ Submit(t)
        \/ Leave(t)

AttemptsSpec == AttemptsInit /\ [][AttemptsNext]_attemptVars
=============================================================================
