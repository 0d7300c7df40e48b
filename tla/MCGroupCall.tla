----------------------------- MODULE MCGroupCall -----------------------------
\* Two calls, one after the other or at once.
EXTENDS GroupCall
=============================================================================
