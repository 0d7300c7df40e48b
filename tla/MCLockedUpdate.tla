--------------------------- MODULE MCLockedUpdate ---------------------------
\* Two local and two remote updates of one contact.
EXTENDS LockedUpdate
=============================================================================
