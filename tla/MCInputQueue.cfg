CONSTANTS
  up = up
  manual = manual
  Inputs = {up, manual}
  Switch = manual
  QueueLen = 3
  Debounce = 1
SPECIFICATION Spec
INVARIANTS CopyNeverTorn ModeFollowsSwitch
PROPERTIES RefinesFifo EdgesAreHandled
