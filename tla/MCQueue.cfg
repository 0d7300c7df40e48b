SPECIFICATION QueueFairSpec
CONSTANTS
    Put = {p1, p2, p3}
    Reader = {r1, r2}
INVARIANTS
    NoValueOverwritten
PROPERTIES
    HandsOver
    PutSettles
CHECK_DEADLOCK FALSE
