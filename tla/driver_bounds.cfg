SPECIFICATION Spec
CONSTANTS
    A = A
    B = B
    C = C
    f1 = f1
    f2 = f2
    Threads = {A, B}
    Files = {f1}
    NoFile = NoFile
    Fds <- SharedFds
    MY_MAX_MINORS = 2
    MY_BUFFER_SIZE = 1
    Bytes = {1}
    Counts = {0, 2}
    Calls <- BoundsCalls
INVARIANTS TypeOK CopyInBounds
CHECK_DEADLOCK FALSE
