CONSTANTS
  MaxGear = 3
  ShiftTimeout = 3
  ClutchWaitTimeout = 1
  ServoTimeout = 3
  StackBiteTimeout = 2
  ManualDuration = 1
  AgeCap = 3
  PulseMs <- MCPulseMs
SPECIFICATION Spec
INVARIANTS PulseTracksState NeverTimesOut  IdleIsExplained 
PROPERTIES  StackFiresOnConfirmation ManualLeavesNothing StackIsTold ShiftsFinish
