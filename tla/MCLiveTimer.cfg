SPECIFICATION LiveFairSpec
CONSTANTS
    QuestionCount = 2
    Commands = {c1}
    MaxRestarts = 0
    MaxFailures = 0
PROPERTIES
    QuestionEventuallyCloses
CHECK_DEADLOCK FALSE
