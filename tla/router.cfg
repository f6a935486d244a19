SPECIFICATION LiveSpec
CONSTANTS
    r1 = r1
    r2 = r2
    Requests = {r1, r2}
    Calls <- MCCalls
    Blocks <- MCBlocks
    MaxConcurrentRequests = 1
    DefaultLimit = 2
    H2C = {r1}
    AgentCallers = {r2}
INVARIANTS
    SlotsHeld
    CommandTold
    UploadKept
    DownloadWhole
PROPERTIES
    SignalStops
    InvocationEnds
    CommandAnswered
CHECK_DEADLOCK FALSE
