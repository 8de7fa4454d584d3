SPECIFICATION FairSpec
CONSTANTS
    A = A
    B = B
    C = C
    f1 = f1
    f2 = f2
    Threads = {A, B, C}
    Files = {f1, f2}
    NoFile = NoFile
    Fds <- SharedFds
    MY_MAX_MINORS = 2
    MY_BUFFER_SIZE = 1
    Bytes = {1}
    Counts = {0}
    Calls <- WakeupCalls
INVARIANTS OneFilePerMinor NoLostWakeup
PROPERTIES LockSpec CallEnds
CHECK_DEADLOCK FALSE
