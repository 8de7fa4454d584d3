SPECIFICATION Spec
CONSTANTS
    Pids = {p1, p2}
    NoPid = NoPid
    Conns = {c1}
    NoConn = NoConn
PROPERTY CtrlCStops
CHECK_DEADLOCK FALSE
