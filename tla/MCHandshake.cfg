SPECIFICATION FairSpec
CONSTANTS
    CspTask = {c1}
    D2mTask = {d1}
    MaxEcho = 1
    MaxMsg = 1
INVARIANTS
    NoncesInStep
    QueueDryFirst
PROPERTIES
    QueueDrained
CHECK_DEADLOCK FALSE
