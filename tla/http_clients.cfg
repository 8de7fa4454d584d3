SPECIFICATION Spec
CONSTANTS
    Pids = {p1, p2, p3}
    NoPid = NoPid
    Conns = {c1, c2}
    NoConn = NoConn
INVARIANTS TypeOK NoFdLeak
PROPERTIES ConnectionEnds PortFreed
CHECK_DEADLOCK FALSE
