SPECIFICATION Spec
CONSTANTS
    Threads = {t1}
    NumPagers = 3
    NumPages = 2
    PageSize = 2
    Values = {0, 1}
    Zero = 0
    Gone = Gone
    None = None
    InitSize = 1
    MaxLen = 2
    MaxOps = 3
    MaxStores = 1
    MaxFailures = 0
    HoleWrites = TRUE
INVARIANT CleanPageIsFile
