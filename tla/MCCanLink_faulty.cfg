SPECIFICATION FairSpec
CONSTANTS
  Senders = {s1, s2}
  Ids <- MCIds
  TxSlots = 1
  RxSlots = 1
  MaxFaults = 2
  DeviceId = 5
  Timers = {"idf"}
INVARIANTS
  OneLateFrameEach
  NoFalseLoss
PROPERTIES
  BackOnTheBus
  UnlockedInTheEnd
  LossDetected
CHECK_DEADLOCK FALSE
