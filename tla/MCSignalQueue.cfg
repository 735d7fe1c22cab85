\* SIGKILL, a synchronous standard signal and a real-time signal.
CONSTANTS
    p1 = p1
    p2 = p2
    Procs = {p1, p2}
    Uids = {u1}
    Signals = {9, 11, 34}
    SIGKILL = 9
    SIGRTMIN = 32
    Synchronous = {11}
    Senders <- AllKinds
    Limit <- UnequalLimits
    MaxNodes = 3
SPECIFICATION Spec
CHECK_DEADLOCK FALSE
INVARIANTS PendingExact FifoPerSignal AccountExact LimitRespected
