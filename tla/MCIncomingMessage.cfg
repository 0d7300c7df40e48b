SPECIFICATION FairSpec
CONSTANTS
    Text = {t1, t2}
    Picture = {p1}
    Setup = {s1}
    NoMessage = NoMessage
    MaxConn = 2
INVARIANTS
    NothingLost
    CommittedIsHandled
PROPERTIES
    ImplementsMailbox
    Delivered
\* All messages may have been delivered.
CHECK_DEADLOCK FALSE
