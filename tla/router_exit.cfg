SPECIFICATION Spec
CONSTANTS
    r1 = r1
    r2 = r2
    Requests = {r1}
    Calls <- MCCalls
    Blocks <- MCBlocks
    MaxConcurrentRequests = 1
    DefaultLimit = 2
    H2C = {}
    AgentCallers = {}
INVARIANT ExitsAfterShutdown
CHECK_DEADLOCK FALSE
