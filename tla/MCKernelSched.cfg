SPECIFICATION Spec
CONSTANTS
  a = a
  b = b
  None = None
  Thread = {main, a, b, idle}
  Idle = idle
  Main = main
  Sem = {}
  Mutex = {}
  MaxPrio = 3
  InitPrio <- MixedPrio
  Slice <- UnitSlice
  SemInit <- Nothing
  TickMod = 8
  Calls <- AllCalls
  Delays = {1, 2}
  Timeouts = {}
  CtlPrios = {0}
  IsrSems = {}
  SemMax = 0
  HoldMax = 0
INVARIANTS
  ReadyQueueOK
PROPERTIES
  LockHolds
  NeverEarly
