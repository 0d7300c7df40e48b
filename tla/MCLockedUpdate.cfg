SPECIFICATION FairSpec
CONSTANTS
    Local = {l1, l2}
    Remote = {r1, r2}
    MaxConn = 3
    MaxSync = 1
INVARIANTS
    OneAtATime
    HolderGoesOn
PROPERTIES
    NoLostUpdate
    SettledUnlessCycle
\* All updates may be settled, or the cycle may be reached.
CHECK_DEADLOCK FALSE
