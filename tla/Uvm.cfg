CONSTANTS
  Procs = {p1, p2}
  Init0 = p1
  PG = 2
  MMAP_BEGIN = 4
  MMAP_END = 7
  TRAPFRAME = 9
  LenLimit = 4
  MaxBrk = 3
  MaxLen = 3
  Programs <- MCPrograms
  NMmap = 3
  NUser = 7
  NKern = 14
SPECIFICATION Spec
INVARIANTS RegionsApart PagesConserved
PROPERTIES MunmapExact
CHECK_DEADLOCK FALSE
