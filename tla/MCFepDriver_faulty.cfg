SPECIFICATION FairSpec
CONSTANTS
  Configured <- MCConfigured
  Wanted = 3
  Ports = {"IUART", "UARTStream"}
  Values = {0, 1, 2, 3}
  Faults = {{}, {"lost", "refused"}, {"lost", "late", "refused"}, {"lost", "radio"}}
  MaxNoise = 1
INVARIANTS
  DetectedIsRight
PROPERTIES
  OneLostLineFailsInit
  DeafPortFailsInit
  InitEstablishes
CHECK_DEADLOCK FALSE
