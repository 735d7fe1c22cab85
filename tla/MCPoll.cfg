CONSTANTS
    Tasks = {t1, t2}
    Plain = {i}
    Host = {h}
    Slots = {s1, s2}
    Modes = {"level", "edge", "oneshot"}
    PipeSize = 2
    Capacity = 2
    MaxOps = 3
    None = None
SYMMETRY TaskSymmetry
SPECIFICATION Spec
CHECK_DEADLOCK FALSE
INVARIANTS NoEventLost SignalNoticed MemorySafe DestroyNeverStuck
