SPECIFICATION MenuSpec
CONSTANTS
    Names = {"a", "b"}
    Mounts = {"b"}
    Values = {V}
    User = u
    Rsync = TRUE
    Workers = {u}
    V = V
    Trees <- MCTrees
PROPERTY CopyKeepsSource
CHECK_DEADLOCK FALSE
