------------------------------- MODULE MCSpi -------------------------------
\* Register accesses and packets of two and eight bytes.
EXTENDS Spi
=============================================================================
