CONSTANTS
    Task = {p1, p2, v1}
    Persistent = {p1, p2}
    NoTask = NoTask
    MaxConn = 2
SPECIFICATION FairSpec
INVARIANTS
    OldLoopsStop
PROPERTIES
    ImplementsList
    PersistentCompletes
    VolatileDecided
\* The number of connections is bounded.
CHECK_DEADLOCK FALSE
