SPECIFICATION GroupFairSpec
CONSTANTS
    Calls = {1, 2}
    MaxFailed = 1
    MaxContexts = 3
    MaxQueue = 0
    MaxFaults = 1
    MaxLeaves = 1
    MaxRestarts = 1
INVARIANTS
    RefreshGoesOn
    OngoingIsKnown
PROPERTY
    JoinEnds
\* The calls are bounded.
CHECK_DEADLOCK FALSE
