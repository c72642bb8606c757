----------------------------- MODULE MCNodeLife -----------------------------
EXTENDS NodeLife

CONSTANTS a, b, x, i1, i2, l

MCProcs   == {a, b}
MCPosts   == {x}
MCIds     == {i1, i2}
MCLetters == {l}
=============================================================================
