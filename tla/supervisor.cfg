SPECIFICATION SupSpec
CONSTANTS
    Pids = {p1, p2, p3}
    NoPid = NoPid
    Conns = {c1}
    NoConn = NoConn
    Handlers = {w1, w2}
    Main = Main
    NoWorker = NoWorker
INVARIANTS SupTypeOK Tracked
PROPERTIES StopStops LockFreed
CHECK_DEADLOCK FALSE
