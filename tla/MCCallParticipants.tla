------------------------- MODULE MCCallParticipants --------------------------
\* The user is in the middle: one participant has a lower identifier and was in
\* the call before, the other has a higher one.
EXTENDS CallParticipants
=============================================================================
