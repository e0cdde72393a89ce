CONSTANTS
  Procs = {p1}
  Names = {a, b}
  Paths <- MCPaths
  NInum = 4
  NBlocks = 3
  PerBlock = 3
  MaxLink = 2
  MinLink <- MCMinLink
  Nil = Nil
SPECIFICATION CarefulSpec
INVARIANTS TreeShape LinksCover UsedStaysAllocated
SYMMETRY MCSymmetry
