SPECIFICATION FairSpec
CONSTANTS
    c1 = c1
    c2 = c2
    c3 = c3
    Contacts = {c1, c2, c3}
    Blocked = {c3}
    Denied = {c2}
    File = TRUE
    Uploaded = 0
    MaxLosses = 2
INVARIANTS
    SentMeansQueued
    ReflectedBeforeSent
    NonceUsedOnce
PROPERTY
    Completes
CHECK_DEADLOCK FALSE
