CONSTANTS
  MaxGear = 3
  ShiftTimeout = 2
  ClutchWaitTimeout = 1
  ServoTimeout = 1
  StackBiteTimeout = 1
  ManualDuration = 1
  AgeCap = 2
  PulseMs <- MCPulseMs
  Bite = 1
  Trigger = 2
  Disengaged = 2
  PaddleTargets = {0, 2}
  ConsoleTargets = {2}
  Heard = {2, 3}
  Prompt = TRUE
SPECIFICATION Safety
INVARIANTS ShiftOwnsClutch  
PROPERTIES PaddleHasTheClutch 
VIEW View
