CONSTANTS
  Wrap = 3
  GearTimeout = 1
  RpmPeriod = 1
  HeartbeatMs = 2
  TxLen = 5
  RxLen = 1
  Heard = {}
  Targets = {0, 1}
  MaxStall = 1
  OutageCap = 2
SPECIFICATION Spec
PROPERTIES CommandsFindRoom DisplayCatchesUp
