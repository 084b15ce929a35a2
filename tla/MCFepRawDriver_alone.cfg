SPECIFICATION Spec
CONSTANTS
  app = app
  rep = rep
  Caller = {app}
  Op = {"Send", "SetRegister", "ResetNoResult", "Version"}
  MaxCmds = 2
  MaxData = 2
  ErrorCodes = {0, 1}
  MaxDamage = 1
  ResultSlots = 2
  LineSlots = 1
  RxSlots = 1
  Links = {"reliable", "lossy"}
INVARIANTS
  OutcomeIsOwn
  DataConserved
  QueuesSound
CHECK_DEADLOCK FALSE
