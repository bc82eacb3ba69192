SPECIFICATION FairSpec
CONSTANTS
  a = a
  b = b
  None = None
  Thread = {main, a, b, idle}
  Idle = idle
  Main = main
  Sem = {}
  Mutex = {}
  MaxPrio = 2
  InitPrio <- EqualPrio
  Slice <- FairSlice
  SemInit <- Nothing
  TickMod = 12
  Calls <- FairCalls
  Delays = {1, 2}
  Timeouts = {}
  CtlPrios = {}
  IsrSems = {}
  SemMax = 0
  HoldMax = 0
PROPERTIES
  RoundRobin
  DelayEnds
