SPECIFICATION CenterSpec
CONSTANTS
    Gui = {g1, g2}
    Workers = {g1, g2}
    Shell = {s}
    Flaky = {s}
    Jobs = {j1, j2}
    Blank = Blank
    MaxLines = 2
    Names = {"a", "b", "c"}
    Mounts = {"b"}
    P = P
    Q = Q
    V = V
    W = W
    Values = {V, W}
    Pages = {P, Q}
    Ready = Ready
    Trees <- MCTrees
    Starts <- MCStarts
    Wanted <- MCWanted
    MaxRequests = 2
ACTION_CONSTRAINT ShellBesideCron
INVARIANT CenterTypeOK
PROPERTIES EditsApply FilesKept OkMeansDone PageFreed
CHECK_DEADLOCK FALSE
