----------------------------- MODULE MCGearbox -----------------------------
EXTENDS Gearbox
MCPulseMs    == [shiftUp |-> 2, shiftDown |-> 2, neutralUp |-> 1, neutralDown |-> 1]
ShortPulseMs == [pulse \in Pulses |-> 1]
=============================================================================
