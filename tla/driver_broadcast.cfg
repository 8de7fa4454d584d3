SPECIFICATION Spec
CONSTANTS
    A = A
    B = B
    C = C
    f1 = f1
    f2 = f2
    Threads = {A, B}
    Files = {f1, f2}
    NoFile = NoFile
    Fds <- SharedFds
    MY_MAX_MINORS = 3
    MY_BUFFER_SIZE = 2
    Bytes = {1, 2}
    Counts = {1, 2}
    Calls <- BroadcastCalls
SYMMETRY FileSymmetry
INVARIANTS HoleFree ReadsWritten
PROPERTY BroadcastComplete
CHECK_DEADLOCK FALSE
