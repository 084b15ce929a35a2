SPECIFICATION FairSpec
CONSTANTS
  Node = {1, 2, 3}
  Broadcast = 240
  Topologies <- MCLine
  Flows <- MCFlows
  Starter = {1, 2}
  MaxEvents = 1
INVARIANTS
  NoBounce
  OnlyFormerNeighbours
PROPERTIES
  HopFound
CHECK_DEADLOCK FALSE
