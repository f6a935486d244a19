SPECIFICATION ShutdownSpec
CONSTANTS
    s1 = s1
    Sessions = {s1}
    IdleTimeouts = {1}
    DefaultIdle = 1
    TTL = 1
    DefaultTTL = 3
    Lookback = 1
    GCLimit = 1
    Faults = {"k8s", "store"}
    MaxTime = 2
    MaxStart = 0
    MaxCrashes = 0
PROPERTIES
    FailedRollbackReclaimed
