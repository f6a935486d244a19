SPECIFICATION ReadyLiveSpec
CONSTANTS
    h1 = h1
    h2 = h2
    w1 = w1
    w2 = w2
    Handlers = {h1, h2}
    Workers = {w1, w2}
INVARIANTS
    NoLostReadiness
    NoFalseReadiness
    WatchersCleaned
    BufferEmptyAtSend
PROPERTIES
    WaiterWoken
CHECK_DEADLOCK FALSE
