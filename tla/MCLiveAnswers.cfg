SPECIFICATION MCSpec
CONSTANTS
    QuestionCount = 2
    Commands = {c1}
    MaxRestarts = 1
    MaxFailures = 1
    Players = {p1}
    Submits = {r1, r2}
    Keys = {k1, k2}
    ChoiceCount = 2
    Correct <- MCCorrect
    Bonuses = {0}
CONSTRAINT MCBound
SYMMETRY MCSymmetry
INVARIANTS
    NeverOvercounted
    OneAnswerToOpenedQuestion
    AcceptedIsStored
CHECK_DEADLOCK FALSE
