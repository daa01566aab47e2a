SPECIFICATION IdentitySpec
CONSTANTS
    None = None
    root = root
    u1 = u1
    r1 = r1
    r2 = r2
    t1 = t1
    t2 = t2
    Users <- MCUsers
    Tokens <- MCTokens
    Requests <- MCRequests
    Root = root
    Kinds <- MCKinds
    Observed <- MCObserved
    Roles <- MCRoles
    TTL = 1
    VerifyMax = 1
    MaxChanges = 2
PROPERTIES
    NoSessionWhileDisabled
CHECK_DEADLOCK FALSE
