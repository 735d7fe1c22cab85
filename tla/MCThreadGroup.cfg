CONSTANTS
    m = m
    a = a
    b = b
    p1 = p1
    p2 = p2
    p3 = p3
    Tasks = {m, a, b}
    Main = m
    Pids = {p1, p2, p3}
    MainPid = p1
    Codes = {1}
    SIGKILL = 9
    None = None
SPECIFICATION FairSpec
CHECK_DEADLOCK FALSE
INVARIANTS PidTableExact GroupActionReachesAll ExecNotTurnedOnItself
PROPERTIES ReportedStatus GroupExitCompletes ExecEnds
