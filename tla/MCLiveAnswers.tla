--------------------------- MODULE MCLiveAnswers ----------------------------
(* The players of a live session on a small instance for TLC.              *)
EXTENDS LiveAnswers, TLC

\* The second choice is correct for the first question, the first for the others.
MCCorrect == [q \in Questions |-> IF q = 0 THEN 1 ELSE 0]

\* "faults": one question, two keys, and one failure or restart.  "questions":
\* two questions, one key and one choice; the session begins with its faults used up.
VARIABLE scenario
mcVars == <<liveVars, answerVars, scenario>>

MCInit ==
    /\ AnswersInit
    /\ session = [status |-> "LOBBY", idx |-> NoQuestion, version |-> 1]
    /\ question = NoQuestion
    /\ events = {}
    /\ command = [c \in Commands |-> NoCommand]
    /\ timer = [k \in Questions |-> Off]
    /\ registered = NoQuestion
    /\ recovered = NoQuestion
    /\ \/ scenario = "faults" /\ restarts = 0 /\ failures = 0
       \/ scenario = "questions" /\ restarts = MaxRestarts /\ failures = MaxFailures

MCSent == {r \in Submits : submit[r].pc # "idle"}
MCKeysUsed == {submit[r].req.key : r \in MCSent} \cup {a.key : a \in answers}
MCAskedFor == {submit[r].req.q : r \in MCSent}
MCChosen == {submit[r].req.choice : r \in MCSent}
MCBound ==
    IF scenario = "faults"
      THEN session.idx <= 0 /\ MCAskedFor \subseteq {0} /\ restarts + failures <= 1
      ELSE Cardinality(MCKeysUsed) <= 1 /\ MCChosen \subseteq {0}

MCNext == AnswersNext /\ UNCHANGED scenario

MCSpec == MCInit /\ [][MCNext]_mcVars

\* Submissions and keys are interchangeable.
MCSymmetry == Permutations(Submits) \cup Permutations(Keys)
=============================================================================
