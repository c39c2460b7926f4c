CONSTANTS
  Cals <- MCCals
  Defaults <- MCDefaults
  Words = 3
  None = None
  Erased = Erased
  Wrong = Wrong
  PositionMax = 60
  PaddleFull = 10
  Deadband = 1
  Shapes <- MCShapes
  Responses <- MCResponses
  Readings = {0, 1, 2, 3, 4, 5, 6, 7, 9, 12, 13, 14, 15}
SPECIFICATION Spec
INVARIANTS SavedIsThere PaddleNeverReverses OnlyPaddlesPull PullsReachTheirEnds
PROPERTIES RefinesRegister 
