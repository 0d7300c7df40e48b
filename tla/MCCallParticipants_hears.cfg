SPECIFICATION Spec
CONSTANTS
    Participants = {1, 3}
    Local = 2
    Initial = {1}
    Lurkers = {}
INVARIANT AuthenticatedHears
CHECK_DEADLOCK FALSE
