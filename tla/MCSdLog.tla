------------------------------ MODULE MCSdLog ------------------------------
EXTENDS SdLog
=============================================================================
