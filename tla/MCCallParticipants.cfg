SPECIFICATION FairSpec
CONSTANTS
    Participants = {1, 3}
    Local = 2
    Initial = {1}
    Lurkers = {}
INVARIANTS
    OutsidersLockedOut
    HearsUnlessQueued
PROPERTY LeaverForgets
CHECK_DEADLOCK FALSE
