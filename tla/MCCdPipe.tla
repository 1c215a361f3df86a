------------------------------- MODULE MCCdPipe -------------------------------
\* Small instances of CdPipe for TLC.
EXTENDS CdPipe

AllFaults == FaultKinds
NoFaults == {}
=============================================================================
