SPECIFICATION FairSpec
CONSTANTS
  app = app
  rep = rep
  Caller = {app, rep}
  Op = {"Send", "GetRegister"}
  MaxCmds = 1
  MaxData = 0
  ErrorCodes = {0}
  MaxDamage = 1
  ResultSlots = 1
  LineSlots = 1
  RxSlots = 1
  Links = {"lossy"}
PROPERTIES
  EveryCallReturns
  
CHECK_DEADLOCK FALSE
