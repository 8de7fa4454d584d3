SPECIFICATION Spec
CONSTANTS
    A = A
    B = B
    C = C
    f1 = f1
    f2 = f2
    Threads = {A, B}
    Files = {f1, f2}
    NoFile = NoFile
    Fds <- OwnFds
    MY_MAX_MINORS = 2
    MY_BUFFER_SIZE = 2
    Bytes = {1}
    Counts = {1, 2}
    Calls <- TwoWriterCalls
INVARIANT HoleFree
CHECK_DEADLOCK FALSE
