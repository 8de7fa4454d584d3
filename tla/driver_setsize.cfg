SPECIFICATION FairSpec
CONSTANTS
    A = A
    B = B
    C = C
    f1 = f1
    f2 = f2
    Threads = {A, B}
    Files = {f1}
    NoFile = NoFile
    Fds <- SharedFds
    MY_MAX_MINORS = 1
    MY_BUFFER_SIZE = 1
    Bytes = {1}
    Counts = {1}
    Calls <- SetSizeCalls
PROPERTY CallEnds
CHECK_DEADLOCK FALSE
