------------------------------- MODULE MCQueue -------------------------------
\* Several producers and readers of one queue.
EXTENDS Queue
=============================================================================
