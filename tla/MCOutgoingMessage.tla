-------------------------- MODULE MCOutgoingMessage --------------------------
\* A group message with a file to two members, one without the picture, and a
\* blocked one.
EXTENDS OutgoingMessage
CONSTANTS c1, c2, c3
=============================================================================
