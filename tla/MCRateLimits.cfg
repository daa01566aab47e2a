SPECIFICATION LimitsSpec
CONSTANTS
    a1 = a1
    a2 = a2
    proxy = proxy
    good = good
    bad = bad
    user = user
    q1 = q1
    q2 = q2
    Garbage = Garbage
    Addresses <- MCAddresses
    Trusted <- MCTrusted
    Codes <- MCCodes
    LiveCodes <- MCLive
    Accounts <- MCAccounts
    Requests <- MCRequests
    Workloads <- MCWorkloads
    Rule <- MCRule
    MaxKeys = 2
    IdleTTL = 1
    BadCodeLimit = 1
    BadCodeWindow = 2
    AccountIPLimit = 1
    AccountLimit = 2
    LoginWindow = 2
    AccountIPLock = 1
    AccountLock = 1
    LockMax = 2
    TapMax = 1
    TapWindow = 2
    MaxTime = 2
SYMMETRY Symmetric
INVARIANTS
    BucketBudget
    AttemptsBounded
    CountedByOrigin
CHECK_DEADLOCK FALSE
