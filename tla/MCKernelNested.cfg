SPECIFICATION Spec
CONSTANTS
  a = a
  b = b
  None = None
  Thread = {main, a, idle}
  Idle = idle
  Main = main
  Sem = {}
  Mutex = {m1, m2}
  MaxPrio = 3
  InitPrio <- MutexPrio
  Slice <- UnitSlice
  SemInit <- Nothing
  TickMod = 8
  Calls <- LockCalls
  Delays = {1, 2}
  Timeouts <- Forever
  CtlPrios = {}
  IsrSems = {}
  SemMax = 0
  HoldMax = 2
INVARIANT
  PrioRestored
