CONSTANTS
  Files = {f1, f2}
  D = 1
  S = 1
  F = 2
  NBlocks = 3
  MaxLen = 2
SPECIFICATION IndexSpec
INVARIANTS BlocksOwned ContentIsWritten
SYMMETRY MCSymmetry
