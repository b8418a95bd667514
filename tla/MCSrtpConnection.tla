-------------------------- MODULE MCSrtpConnection --------------------------
\* SrtpConnection on a circle of 64 sequence numbers.  The window is 8 and the
\* thresholds lie 16 from the rollover, the proportions of 2048 and 0x1000; the
\* stream starts a few packets before the rollover and ends a few after it.
EXTENDS SrtpConnection
=============================================================================
