--------------------------- MODULE MCFileTransfer ---------------------------
EXTENDS FileTransfer

CONSTANTS s1, s2

MCStreams == {s1, s2}
=============================================================================
