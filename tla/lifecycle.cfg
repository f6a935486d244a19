SPECIFICATION LiveSpec
CONSTANTS
    s1 = s1
    Sessions = {s1}
    IdleTimeouts = {1}
    DefaultIdle = 1
    TTL = 2
    DefaultTTL = 3
    Lookback = 0
    GCLimit = 1
    Faults = {"k8s", "store"}
    MaxTime = 2
    MaxStart = 0
    MaxCrashes = 1
INVARIANTS
    NoLeak
    ExpiryAgrees
    CollectsOnlyIdleOrExpired
    AnsweredSessionUsable
PROPERTIES
    NoResurrection
    ImplementsRegistry
    CreationAnswered
    Reclaimed
