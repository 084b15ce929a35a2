SPECIFICATION RobotSpec
CONSTANTS
  Nodes = {"a", "b"}
  Ids = {0, 1, 2}
  kv_callbacks_ <- MCKvCallbacks
  MaxQueue = 2
  MaxCalls = 2
  MaxLost = 1
  Sticks <- MCSticks
  RawAngles <- MCRawAngles
  RobotAngles = {0, 120, 240}
  Gains = {0, 1}
  WheelId = 2
  angle_deg = 90
  MaxInputs = 6
INVARIANTS
  AnswersMatch
  ErrorsAreRight
  RotationFollows
PROPERTIES
  GetRemoteReturns
  ShortWay
CHECK_DEADLOCK FALSE
