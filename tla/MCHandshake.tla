----------------------------- MODULE MCHandshake -----------------------------
\* One connection with a writing task per server.
EXTENDS Handshake
=============================================================================
