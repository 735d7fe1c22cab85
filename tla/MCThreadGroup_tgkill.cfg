CONSTANTS
    m = m
    a = a
    b = b
    p1 = p1
    p2 = p2
    p3 = p3
    Tasks = {m, a}
    Main = m
    Pids = {p1, p2}
    MainPid = p1
    Codes = {0, 1}
    SIGKILL = 9
    None = None
SPECIFICATION Spec
CHECK_DEADLOCK FALSE
INVARIANTS GroupExitCarried
