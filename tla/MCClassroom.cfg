SPECIFICATION MCSpec
CONSTANTS
    None = None
    owner = owner
    ann = ann
    bob = bob
    cat = cat
    cls = cls
    code1 = code1
    code2 = code2
    req1 = req1
    req2 = req2
    set1 = set1
    key1 = key1
    key2 = key2
    Users <- MCUsers
    Platform <- MCPlatform
    Classes <- MCClasses
    Codes <- MCCodes
    MaxMembers = 2
    Requests <- MCRequests
    Sets <- MCSets
    Learners <- MCLearners
    Keys <- MCKeys
    KeyUser <- MCKeyUser
    MaxCopies = 1
    v1 = v1
    w1 = w1
    w2 = w2
    Videos <- MCVideos
    Workers <- MCWorkers
    Batch = 1
INVARIANTS
    MembershipSound
    CompletionCounted
    NothingLeaked
PROPERTIES
    CompletionDelivered
    QueueDrains
    PlayableKept
CHECK_DEADLOCK FALSE
