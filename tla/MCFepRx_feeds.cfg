SPECIFICATION FairSpec
CONSTANTS
  Capacity = 16
  LineSize = 8
  Feeds <- MCFeeds
INVARIANTS
  ReceiverSound
  CutsAtPacketBoundaries
PROPERTIES
  IsLink
  FullQueueIsFinal
CHECK_DEADLOCK FALSE
