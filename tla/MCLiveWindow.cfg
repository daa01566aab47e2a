SPECIFICATION MCSpec
CONSTANTS
    None = None
    w1 = w1
    w2 = w2
    c1 = c1
    MaxVersion = 3
    Workers <- MCWorkers
    Steady <- MCSteady
    BatchSize = 2
    MaxAttempts = 1
    Clients <- MCClients
    Buffer = 1
    ReplayLen = 1
    MaxRestarts = 1
INVARIANT SnapshotIsFresh
CHECK_DEADLOCK FALSE
