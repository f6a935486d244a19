SPECIFICATION Spec
CONSTANTS
    s1 = s1
    s2 = s2
    s3 = s3
    Sessions <- MCSessions
    Idle <- MCIdle
    DefaultIdle = 2
    TTL = 2
    Lookback = 1
    GCLimit = 2
    Stuck <- MCStuck
    Left <- MCLeft
    MaxTime = 3
    MaxStart = 1
    MaxBroken = 1
INVARIANTS
    TypeOK
    RecordIndexed
    NothingLeft
PROPERTIES
    DueCollected
