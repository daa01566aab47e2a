SPECIFICATION MCSpec
CONSTANTS
    u1 = u1
    v1 = v1
    v2 = v2
    a1 = a1
    a2 = a2
    Users <- MCUsers
    Sessions = {s1, s2}
    Versions <- MCVersions
    ItemCount = 2
    Choices <- MCChoices
    Solution <- MCSolution
    Group <- MCGroup
    Kinds <- MCKinds
    Starters = {b1, b2}
    Replicas = {r1}
    MaxSessions = 1
    NoSession = NoSession
    Purged = Purged
    NoAnswer = NoAnswer
    NoScore = NoScore
    NoStarter = NoStarter
INVARIANTS
    SessionHasSnapshot
CHECK_DEADLOCK FALSE
