SPECIFICATION ContentSpec
CONSTANTS
    None = None
    set1 = set1
    owner = owner
    moderator = moderator
    req1 = req1
    job1 = job1
    Sets <- MCSets
    SetOwner <- MCOwner
    Users <- MCUsers
    Roles <- MCRoles
    Requests <- MCRequests
    Jobs <- MCJobs
    Rows = 2
    Chunk = 1
    MaxCards = 4
    MaxEdits = 2
INVARIANTS
    UnfinishedHasWorker
    ImportReported
    RowOrderKept
    QuizMirrored
CHECK_DEADLOCK FALSE
