SPECIFICATION MCSpec
CONSTANTS
    QuestionCount = 1
    Commands = {c1}
    MaxRestarts = 0
    MaxFailures = 0
    Players = {p1}
    Submits = {r1, r2}
    Keys = {k1, k2}
    ChoiceCount = 2
    Correct <- MCCorrect
    Bonuses = {0}
INVARIANTS
    SafeRetry
CHECK_DEADLOCK FALSE
