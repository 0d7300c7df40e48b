SPECIFICATION ConnectionFairSpec
CONSTANT MaxFrames = 2
INVARIANTS
    LoopSurvives
    AlertsHandled
PROPERTIES
    ImplementsManager
    Reconnects
    FailureCloses
\* The loop may have ended, and the call of selfKickFromMediator with it.
CHECK_DEADLOCK FALSE
