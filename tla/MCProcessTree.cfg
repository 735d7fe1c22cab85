CONSTANTS
    Pids = {p1, p2, p3, p4}
    InitPid = p1
    MaxWaiters = 1
    None = None
SYMMETRY PidSymmetry
SPECIFICATION Spec
CHECK_DEADLOCK FALSE
INVARIANTS NoOrphan IdsExact
PROPERTIES NoChildMissed
