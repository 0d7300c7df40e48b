---------------------------- MODULE MCConnection -----------------------------
\* The connection manager as it is, and few frames on each connection.
EXTENDS Connection
=============================================================================
