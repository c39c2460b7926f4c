CONSTANTS
  MaxGear = 3
  ShiftTimeout = 2
  ClutchWaitTimeout = 1
  ServoTimeout = 1
  StackBiteTimeout = 1
  ManualDuration = 1
  AgeCap = 2
  PulseMs <- MCPulseMs
  LogTimeout = 3
  Heard = {0, 2, 3}
  Answers = {{"clutch_disengaged"}, {"clutch_at_bite"}}
SPECIFICATION LogSpec
INVARIANTS RecordedOnce TimedWhileShifting
PROPERTIES GoodWasReported EveryShiftIsRecorded
