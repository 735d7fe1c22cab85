CONSTANTS
    l = l
    t1 = t1
    Threads = {l, t1}
    Leader = l
    Outside = outside
    Sigs = {stop, cont}
    StopSigs = {stop}
    ContSigs = {cont}
SPECIFICATION Spec
CHECK_DEADLOCK FALSE
INVARIANTS NoLostPrivateSignal SharedSignalHasTaker JobControlExclusive
