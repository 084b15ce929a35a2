SPECIFICATION FairSpec
CONSTANTS
  App = {"main"}
  Dispatcher = {"uart"}
  QueueSlots = 2
  MaxMsgs = 4
  MaxRx = 3
  Jams = {TRUE, FALSE}
INVARIANTS
  ReceiverNeverWaits
  
PROPERTIES
  RepliesGoOut
CHECK_DEADLOCK FALSE
