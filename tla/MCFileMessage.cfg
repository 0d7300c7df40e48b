SPECIFICATION FairSpec
CONSTANTS
    b1 = b1
    b2 = b2
    t1 = t1
    t2 = t2
    Calls = {b1, b2, t1}
    MainCalls = {b1, b2}
    Blobs = {"main", "thumbnail"}
    MaxFiles = 5
    MaxFaults = 1
    MaxRestarts = 1
INVARIANTS
    FilesExist
    DoneOnceKept
PROPERTY
    CallsEnd
CHECK_DEADLOCK FALSE
