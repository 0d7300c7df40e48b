SPECIFICATION FairSpec
CONSTANTS
    Device = {d1, d2}
    MaxChanges = 3
    MaxFaults = 2
    NoDevice = {d1, d2}
INVARIANTS
    NoChangeMissed
PROPERTIES
    ImplementsLog
    ChangesSpread
    TransactionEnds
\* The changes are bounded.
CHECK_DEADLOCK FALSE
