-------------------------------- MODULE MCSchar --------------------------------
\* Small instances of Schar for TLC.
EXTENDS Schar

CONSTANTS r1, r2, w1
=============================================================================
