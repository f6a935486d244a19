\* A cache of two verdicts and one of one client.
SPECIFICATION Spec
CONSTANTS
    r1 = r1
    r2 = r2
    t1 = t1
    t2 = t2
    t3 = t3
    a1 = a1
    a2 = a2
    Requests <- MCRequests
    Tokens <- MCTokens
    Accounts <- MCAccounts
    AccountOf <- MCAccountOf
    Accepted <- MCAccepted
    Payload <- MCPayload
    TokenMax = 2
    TokenTTL = 1
    ClientMax = 1
    MaxTime = 2
    MaxFlips = 1
SYMMETRY MCSymmetry
INVARIANTS
    InStep
    FreshVerdict
    OnlyAuthenticated
PROPERTIES
    HandedOut
