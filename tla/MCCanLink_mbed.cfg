SPECIFICATION FairSpec
CONSTANTS
  Senders = {s1}
  Ids <- MCIds
  TxSlots = 1
  RxSlots = 1
  MaxFaults = 0
  DeviceId = 5
  Timers = {"mbed"}
PROPERTIES
  LossDetected
CHECK_DEADLOCK FALSE
