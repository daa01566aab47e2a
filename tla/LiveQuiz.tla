------------------------------ MODULE LiveQuiz ------------------------------
(***************************************************************************)
(* What a live quiz promises host and players: questions are opened one    *)
(* after the other, each once, an open question is closed before the next  *)
(* one opens, and an ended quiz stays ended.                               *)
(***************************************************************************)
EXTENDS Integers

CONSTANT QuestionCount

VARIABLES
    status,         \* state of the quiz
    current         \* index of the last question opened, -1 before the start

quizVars == <<status, current>>

QuizInit == status = "LOBBY" /\ current = -1

Start ==
    /\ status = "LOBBY"
    /\ status' = "QUESTION_OPEN"
    /\ current' = 0

Close ==
    /\ status = "QUESTION_OPEN"
    /\ status' = "QUESTION_CLOSED"
    /\ UNCHANGED current

Advance ==
    /\ status = "QUESTION_CLOSED"
    /\ current + 1 < QuestionCount
    /\ status' = "QUESTION_OPEN"
    /\ current' = current + 1

End ==
    /\ status # "ENDED"
    /\ status' = "ENDED"
    /\ UNCHANGED current

QuizNext == Start \/ Close \/ Advance \/ End

QuizSpec == QuizInit /\ [][QuizNext]_quizVars
=============================================================================
