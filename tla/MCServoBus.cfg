CONSTANTS
  engaged = engaged
  pulled = pulled
  factory = factory
  spare = spare
  Targets = {engaged, pulled}
  Addresses = {factory}
  ServoAddr = factory
  Requests = {"ReadCurrentConfig"}
  PollCmds = {"ReadPositionAndI"}
  ReplyTimeout = 2
  PosMinInterval = 2
  PollMs = 2
  StaleMs = 2
  MaxStall = 2
  TxLen = 2
  RxLen = 1
  Lossy = TRUE
SPECIFICATION Safety
INVARIANTS TypeOK 
