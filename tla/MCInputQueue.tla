---------------------------- MODULE MCInputQueue ----------------------------
EXTENDS InputQueue
CONSTANTS up, manual
=============================================================================
