----------------------------- MODULE MCShiftLog -----------------------------
EXTENDS ShiftLog
MCPulseMs == [pulse \in {"shiftUp", "shiftDown", "neutralUp", "neutralDown"} |-> 1]
=============================================================================
