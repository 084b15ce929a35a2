SPECIFICATION FairSpec
CONSTANTS
  robot = robot
  controller = controller
  Peer <- MCPeer
  Thread <- MCThread
  OtherEnd <- MCOtherEnd
  Id <- MCId
  Node <- MCNode
  Connection <- MCConnection
  NodeOf <- MCNodeOf
  Shared <- MCShared
  Output <- MCOutput
  EmcInputs <- MCEmcInputs
  Links <- MCLinks
  LostTime = 1
  MaxInFlight = 2
  Preemptive = {robot}
  MaxWrites = 2
INVARIANTS
  TypeOK
  OutputFollows
  StoresAgree
PROPERTIES
  GoneStops
  SwitchTalkEnds
CHECK_DEADLOCK FALSE
