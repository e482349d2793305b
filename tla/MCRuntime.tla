----------------------------- MODULE MCRuntime -----------------------------
\* The UART at 1 and the timer at 2, as in system.h; the console's alarm and
\* one more; a tick count of three bits, which the second interval almost spans.
EXTENDS Runtime, TLC

MCIds == {1, 2}
MCIntervals == {6}
=============================================================================
