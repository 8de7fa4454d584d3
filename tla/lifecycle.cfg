SPECIFICATION Spec
CONSTANTS
    MY_MAX_MINORS = 2
    Handlers = {w1, w2}
INVARIANTS TypeOK Unwound
PROPERTIES OpenServed NodesReady
