SPECIFICATION FairSpec
CONSTANTS
  robot = robot
  controller = controller
  Peer <- MCPeer
  Thread <- MCThread
  OtherEnd <- MCOtherEnd
  Id <- MCId
  Node <- MCNode
  Connection <- MCConnection
  NodeOf <- MCNodeOf
  Shared <- MCShared
  Output <- MCOutput
  EmcInputs <- MCEmcInputs
  Links <- MCLinks
  LostTime = 1
  MaxInFlight = 1
  Preemptive = {}
  MaxWrites = 0
PROPERTIES
  CutsFromAnywhere
CHECK_DEADLOCK FALSE
