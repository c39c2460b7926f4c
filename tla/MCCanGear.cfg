CONSTANTS
  Wrap = 8
  GearTimeout = 3
  RpmPeriod = 1
  HeartbeatMs = 1
  TxLen = 1
  RxLen = 2
  Heard = {2, 255}
  Targets = {0}
  MaxStall = 2
  OutageCap = 1
SPECIFICATION Spec
INVARIANTS GearIsFresh
