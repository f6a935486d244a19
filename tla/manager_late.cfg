SPECIFICATION Spec
CONSTANTS
    Requests = {r1}
    H2C = {}
INVARIANT NoNewRequests
CHECK_DEADLOCK FALSE
