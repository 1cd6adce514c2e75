--------------------------- MODULE MCSharedSocket ---------------------------
\* Values for SharedSocket's constants: a packet of one byte, and one more byte.
EXTENDS SharedSocket

MCInbound == <<1, 0, 7, 1>>
=============================================================================
