SPECIFICATION LiveFairSpec
CONSTANTS
    QuestionCount = 2
    Commands = {c1}
    MaxRestarts = 2
    MaxFailures = 1
INVARIANTS
    NoOrphanTimer
    ProjectionsTrailRow
PROPERTIES
    ImplementsLiveQuiz
    RecoveredQuestionCloses
CHECK_DEADLOCK FALSE
