------------------------- MODULE MCIncomingMessage --------------------------
\* Two texts and a message of each kind that needs a request.
EXTENDS IncomingMessage
=============================================================================
