---------------------------- MODULE MCClutchPath ----------------------------
EXTENDS ClutchPath
MCPulseMs == [pulse \in {"shiftUp", "shiftDown", "neutralUp", "neutralDown"} |-> 1]

\* What tells states apart.  A step starts by forgetting the last step's calls, and a
\* manual shift's limit decides only whether the next ManualShift speaks.
Relevant == [gb EXCEPT !.calls = << >>, !.manualActive = FALSE, !.manualAge = 0]
View == <<Relevant, canGear, manualMode, ticked, drive, rest>>
=============================================================================
