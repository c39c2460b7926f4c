CONSTANTS
  RingLen = 8
  Chunk = 3
  LineLens = {2, 4}
  HeaderLen = 1
  FlushAfter = 1
  SyncEvery = 2
  BusyLimit = 2
SPECIFICATION Spec
INVARIANTS DeadCardUntouched
PROPERTIES RefinesLog GivenUpInTime LinesReachTheCard
