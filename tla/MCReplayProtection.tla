------------------------- MODULE MCReplayProtection -------------------------
\* ReplayProtection with an eight-value window on a circle of 22 values.  As in
\* the code (2048) the map has exactly as many bits as the window has values, so
\* every bit is reused as the window slides; 8 does not divide 22, so the bits
\* shift from one lap to the next.  Eight accepted packets fill the window,
\* slide it and roll it over.
EXTENDS ReplayProtection
=============================================================================
