SPECIFICATION RuntimeSpec
CONSTANTS
  HeapSize = 14
  Requests = {4, 8, 16}
  MaxLive = 3
  Writers = {"thread", "irq", "irq2"}
  Level <- MCLevel
  RingSize = 4
  MaxQueue = 1
  TagLength = 1
  Lengths = {1}
  HexSizes = {16}
  MaxLines = 3
  Adders = {"caller", "task"}
  NewTasks <- MCNewTasks
  MaxTasks = 3
  Horizon = 3
INVARIANTS
  HeapIntact
  LifoRecovers
  LinesIntact
  HoldsOpenTasks
PROPERTIES
  LinesPrinted
  TasksRun
CHECK_DEADLOCK FALSE
