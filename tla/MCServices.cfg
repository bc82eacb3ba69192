SPECIFICATION ServicesSpec
CONSTANTS
  Byte = {nul, nl, a}
  NUL = nul
  NL = nl
  bufsz = 3
  HwDepth = 1
  FINSH_CMD_SIZE = 2
  SemMax = 3
  Printer = {"p", "q"}
  RefMax = 3
  KeepsConsole = TRUE
  Thread = {"t1", "t2"}
  lock = "lock"
  Unit = 4
  Hdr = 24
  MinAlloc = 12
  PoolSize = 172
  Sizes = {1, 30, 50}
  FileName = {"f", "g"}
  FileByte = {"a", "b"}
  Fd = {"d0", "d1"}
  Entry = {"e0", "e1"}
  NULL = NULL
  Run <- FileRuns
  Count = {1, 2}
  SizeMax = 2
  Object = {"o1", "o2", "o3"}
  ObjectName = {"a", "b"}
  name <- NameOf
  Walker = {"t1"}
  Detachable = {"o1", "o2", "o3"}
  head = "head"
  NoObject = "none"
  Mounter = {"t", "u"}
  FsSlot = {1, 2}
  OpsMax = 1
  Type = {"ram", "elm"}
  NameChar <- NameChars
  Path <- Paths
  Typed <- TypedPaths
  Device = {TRUE, FALSE}
  none = none
  Letter <- Letters
  Table <- Commands
  ARG_MAX = 2
  LineMax = 6
  Parts = {"memheap", "printf", "ramfs", "objects", "device", "msh", "dfs"}
INVARIANTS
  HeapSound
  PrintsStream
PROPERTIES
  KeepsPromise
  IsFileStore
  SearchComplete
  MountsKept
  TextsAsMeant
