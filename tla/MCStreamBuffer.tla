--------------------------- MODULE MCStreamBuffer ---------------------------
\* StreamBuffer, with both sides preempting each other.
EXTENDS StreamBuffer

Either == {"writer", "reader"}
=============================================================================
