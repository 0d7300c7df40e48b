---------------------------- MODULE MCFileMessage ----------------------------
\* Two calls for the image and two for its thumbnail.
EXTENDS FileMessage
CONSTANTS b1, b2, t1, t2
=============================================================================
