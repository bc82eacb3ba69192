SPECIFICATION Spec
CONSTANTS
  Thread = {t1, t2, t3}
  heap_sem = heap_sem
  Unit = 4
  Hdr = 12
  MinSize = 12
  MemSize = 76
  Sizes = {0, 1, 24, 77}
SYMMETRY Symmetry
INVARIANTS
  HeapOK
PROPERTIES
  FailsOnlyWhenFull
  KeepsPromise
