---------------------------- MODULE MCTransaction ----------------------------
\* Two devices of one user, three changes, and two faults: lost connections or
\* changes that a device discards.
EXTENDS Transaction
=============================================================================
