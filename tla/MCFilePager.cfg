SPECIFICATION Spec
CONSTANTS
    Threads = {t1, t2}
    NumPagers = 3
    NumPages = 1
    PageSize = 2
    Values = {0, 1}
    Zero = 0
    Gone = Gone
    None = None
    InitSize = 1
    MaxLen = 2
    MaxOps = 3
    MaxStores = 2
    MaxFailures = 1
    HoleWrites = FALSE
INVARIANTS OneCache RefsExact UndurableKept FsyncDurable SleeperHasWaker
PROPERTY ImplementsFile
