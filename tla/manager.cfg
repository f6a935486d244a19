SPECIFICATION ManagerLiveSpec
CONSTANTS
    Requests = {r1, r2}
    H2C = {r2}
    Routers = {p1, p2}
    MaxKeys = 2
INVARIANTS
    TypeOK
    StoreClosedLast
    KeysAgree
PROPERTY SignalStops
CHECK_DEADLOCK FALSE
