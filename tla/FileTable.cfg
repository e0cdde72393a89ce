CONSTANTS
  data = data
  dir = dir
  null = null
  Procs = {p1, p2}
  InitProc = p1
  NFile = 2
  NFd = 2
  Inodes <- MCInodes
  Type <- MCType
  Root = dir
  Modes <- MCModes
  MaxOff = 1
  MaxLen = 1
  Nil = Nil
SPECIFICATION Spec
INVARIANTS FileRefsExact InodeRefsExact TransferKeepsPlace
