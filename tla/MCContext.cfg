SPECIFICATION ContextSpec
CHECK_DEADLOCK FALSE
CONSTANTS
  a = a
  b = b
  c = c
  d = d
  Idle = idle
  Thread = {a, b, c, d, idle}
  MaxPrio = 3
  Prio <- MCPrio
  Started <- MCStarted
  Calls <- MCCalls
  Targets <- MCTargets
  MaxNest = 2
  Task = {"main", "tshell", "tidle"}
  Irq = {34, 44}
  ScheduleMax = 2
  Timer = {"periodic", "once", "third"}
  NoTimer = "none"
  User = {"main"}
  Uses <- MCUses
  Periodic = {"periodic"}
  CallbackOps <- MCCallbackOps
  Ticks = {1, 2}
  TickMod = 6
  StartMax = 3
INVARIANTS
  ListsExact
  RegistersKept
PROPERTIES
  SwitchesToReady
  TimersFire
