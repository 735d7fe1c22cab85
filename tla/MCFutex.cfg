CONSTANTS
    Waiters = {t1, t2}
    Wakers = {t3}
    Keys = {a, b}
    Values = {0, 1}
    MaxVector = 2
    Calls <- MCCalls
    t1 = t1
    t2 = t2
    Counts = {1, 2}
SPECIFICATION FutexFairSpec
INVARIANTS ObjectsExact NoMissedWake
PROPERTIES WakeNotSwallowed StoreEndsWait
