SPECIFICATION Spec
CONSTANTS
  a = a
  b = b
  None = None
  Thread = {main, a, idle}
  Idle = idle
  Main = main
  Sem = {s1}
  Mutex = {m1}
  MaxPrio = 2
  InitPrio <- SemPrio
  Slice <- SemSlice
  SemInit <- Zero
  TickMod = 8
  Calls <- SemCalls
  Delays = {1, 2}
  Timeouts <- AnyTime
  CtlPrios = {}
  IsrSems = {s1}
  SemMax = 2
  HoldMax = 1
INVARIANTS
  NoLostWakeup
  WaitersOK
  OwnerPromoted
  MutexOK
PROPERTIES
  SemKeepsPromise
